---- MODULE Spec2Model ----
(***************************************************************************)
(* vboxsf (VirtualBox shared folders): the directory listing cache, the    *)
(* enumeration driver (sf_dir_open / sf_getdent / sf_dir_iterate /         *)
(* sf_dir_release) and the directory mutation operations (sf_lookup,       *)
(* sf_create_aux, sf_unlink_aux, sf_rename, sf_symlink) of                 *)
(* fs/vboxsf/dirops.c, over a host share reached through the vboxsf_*      *)
(* transport calls.                                                        *)
(***************************************************************************)
EXTENDS Integers, Sequences, FiniteSets, TLC

\* ------------------------------------------------------------------ bounds

\* Entry names are 1..MaxNames; a directory holds each name at most once.
MaxNames == 3
\* Entries one directory buffer (struct sf_dir_buf) holds.
ChunkCap == 2
\* Largest number of entries the accept callback (dir_emit) takes per call.
MaxRoom == 2
\* Directory inode operations (lookup, create, mkdir, unlink, rmdir, rename,
\* symlink) the VFS calls in one run: on a directory whose entries were
\* looked up before (MaxMut), and after a fresh mount (MaxOps).
MaxMut == 1
MaxOps == 2
MaxBufs == 3

Names == 1..MaxNames
\* The cursor is not advanced by failing refetches beyond this position.
MaxPos == MaxNames + 1

\* Directories with a local inode: 1 and 2 live on share 1, 3 on share 2.
Dirs == {1, 2, 3}
sb_of(d) == IF d = 3 THEN 2 ELSE 1
\* Open file descriptions (struct file) a directory may have.
Files == {1, 2}
\* The directory the enumeration sessions are opened on.
SessDir == CHOOSE d \in Dirs : \A e \in Dirs : d <= e

\* ------------------------------------------------------- program constants

\* vfsmod.c:176  iroot = iget_locked(sb, 0)
ROOT_INO == 0

\* dirops.c:241  sanity = ctx->pos + 0xbeef
FAKE_INO_OFFSET == 48879

\* The handle a successful create returns is written as the path it opened.
SHFL_HANDLE_NIL == <<>>
SHFL_FILE_EXISTS == "SHFL_FILE_EXISTS"
SHFL_FILE_CREATED == "SHFL_FILE_CREATED"
SHFL_PATH_NOT_FOUND == "SHFL_PATH_NOT_FOUND"

SHFL_TYPE_FILE == "SHFL_TYPE_FILE"
SHFL_TYPE_DIRECTORY == "SHFL_TYPE_DIRECTORY"
SHFL_TYPE_SYMLINK == "SHFL_TYPE_SYMLINK"
SHFL_TYPE_FIFO == "SHFL_TYPE_FIFO"
SHFL_TYPE_DEV_CHAR == "SHFL_TYPE_DEV_CHAR"
SHFL_TYPE_DEV_BLOCK == "SHFL_TYPE_DEV_BLOCK"
SHFL_TYPE_SOCKET == "SHFL_TYPE_SOCKET"
SHFL_TYPE_WHITEOUT == "SHFL_TYPE_WHITEOUT"

\* Return codes (0, 1 and the negative errno values) as they are written.
OK == "0"
END_REACHED == "1"
ENOENT == "-ENOENT"
ENOMEM == "-ENOMEM"
EINVAL == "-EINVAL"
EPERM == "-EPERM"
EIO == "-EIO"
EBUSY == "-EBUSY"
ETIMEDOUT == "-ETIMEDOUT"

\* typec_altmode.h:80-84  the pin states
TYPEC_STATE_USB == 0
TYPEC_STATE_SAFE == 1
TYPEC_STATE_MODAL == 2

\* intel-cht-usb-role-switch.c:26-29  the bits of DUAL_ROLE_CFG0, each as the
\* set of the bit positions it has set.
SW_VBUS_VALID == {24}
SW_IDPIN_EN == {21}
SW_IDPIN == {20}
\* A bit of DUAL_ROLE_CFG0 the driver has no name for.
CFG0_OTHER == {0}

USB_ROLE_HOST == "USB_ROLE_HOST"
USB_ROLE_DEVICE == "USB_ROLE_DEVICE"

\* acpi_status values of acpi_acquire_global_lock
AE_OK == "AE_OK"
AE_NOT_CONFIGURED == "AE_NOT_CONFIGURED"
AE_ERROR == "AE_ERROR"

\* i_mode's file type field as the set of its bits that are set
\* (S_IFREG 0100000, S_IFDIR 0040000, S_IFCHR 0020000, S_IFIFO 0010000).
S_IFREG == {"0100000"}
S_IFDIR == {"0040000"}
S_IFLNK == {"0100000", "0020000"}
S_IFSOCK == {"0100000", "0040000"}
S_IFBLK == {"0040000", "0020000"}
S_IFCHR == {"0020000"}
S_IFIFO == {"0010000"}
\* The file types an i_mode can hold.
IModes == {S_IFSOCK, S_IFLNK, S_IFREG, S_IFBLK, S_IFDIR, S_IFCHR, S_IFIFO}

\* ------------------------------------------------------------------- state

VARIABLES
    host,      \* the share: [Dirs -> Seq([name, type])], each directory's listing
    sf_i,      \* sf_inode_info of each directory inode
    child,     \* [Dirs -> [Names -> inode or NoInode]]: d_inode of each dentry
    last_ino,  \* the last inode number iunique() returned
    file,      \* [Files -> struct file: opened, private_data, f_pos]
    iter,      \* [Files -> sf_dir_iterate's activation: pc, budget, count, err
               \*  (the value returned), getdent (sf_getdent's last value)]
    emitted,   \* [Files -> the entries dir_emit accepted since the open]
    mut,       \* [Files -> the successful mutations of SessDir since the open]
    ret,       \* the last operation and its return value
    calls,     \* the transport calls the last step issued, in order
    nops,      \* the directory inode operations the run may still call
    kmem,      \* what the last inode operation did with path buffers, in order
    remote,    \* the handles the host holds open for this client
    base,      \* the entries of SessDir's listing that precede the ones host
               \* writes out, a loff_t: file[f].f_pos, emitted[f][i].pos and
               \* the walks count from there
    thr,       \* [Threads -> a task's call of sf_dir_iterate on struct file 1,
               \*  line by line: pc, budget, count, stamp (mut[1] when its
               \*  refetch began), rerr (what sf_dir_read_all returned)]
    lst        \* history of struct file 1's list: emptied (sf_dir_info_empty
               \* ran on it), old (the list the last sf_dir_info_empty
               \* dropped), new (what that refetch's handle lists), done (per
               \* value of mut[1], the refetches completed, counted to 2),
               \* by (the task that completed the last one)
VARIABLES
    dropped    \* the inodes no dentry holds any more and the VFS has not
               \* evicted yet

VARIABLES
    typec,     \* a Type-C port and its partner: active (of each partner
               \* alternate mode device), port_active (of each port alternate
               \* mode device), sent (Enter Mode was sent and is not answered),
               \* pins (the state the mux is in), ops (which of the two kinds
               \* of device registered operations), op, ret and log (the last
               \* call on the bus, its value and what it did, in order)
    cht        \* the Cherry Trail role switch: cfg0 (DUAL_ROLE_CFG0 as the
               \* set of its bits that are set), cfg0_start (its value at
               \* probe), configured (the platform has an ACPI global lock),
               \* glock (the task that holds it, "none" for none), task (per
               \* task: pc, role, valid, val, acquired, ret)

vars == <<host, sf_i, child, last_ino, file, iter, emitted, mut, ret, calls, nops, kmem,
         remote, base, thr, lst, typec, cht,
          dropped>>
hwVars == <<typec, cht>>
fsVars == <<host, sf_i, child, last_ino, file, iter, emitted, mut, ret, calls, nops, kmem,
           remote, base, thr, lst,
            dropped>>
auxVars == <<base, thr, lst, hwVars, dropped>>
sessVars == <<file, iter, emitted, auxVars>>
inodeVars == <<sf_i, child, last_ino>>

NoInode == [ino |-> 0]
NoEntry == [name |-> 0]

\* ------------------------------------------------------- helper operators

RECURSIVE Flatten(_)
Flatten(chunks) ==
    IF chunks = <<>> THEN <<>> ELSE Head(chunks) \o Flatten(Tail(chunks))

RECURSIVE Chunks(_)
\* The buffers one read-all produces: every buffer is filled before the next.
Chunks(list) ==
    IF list = <<>> THEN <<>>
    ELSE IF Len(list) <= ChunkCap THEN <<list>>
    ELSE <<SubSeq(list, 1, ChunkCap)>> \o Chunks(SubSeq(list, ChunkCap + 1, Len(list)))

RECURSIVE Ascending(_)
\* The names of S in ascending order.
Ascending(S) ==
    IF S = {} THEN <<>>
    ELSE LET m == CHOOSE x \in S : \A y \in S : x <= y
         IN <<m>> \o Ascending(S \ {m})

HasName(list, n) == \E i \in 1..Len(list) : list[i].name = n
IndexOf(list, n) == CHOOSE i \in 1..Len(list) : list[i].name = n
RemoveAt(list, i) == SubSeq(list, 1, i - 1) \o SubSeq(list, i + 1, Len(list))
RemoveName(list, n) == IF HasName(list, n) THEN RemoveAt(list, IndexOf(list, n)) ELSE list

\* The type an entry of the initial share content has.
InitType(n) ==
    CASE n % 3 = 1 -> SHFL_TYPE_FILE
      [] n % 3 = 2 -> SHFL_TYPE_DIRECTORY
      [] OTHER     -> SHFL_TYPE_SYMLINK

\* Names whose bytes the mount's NLS table cannot convert.
Undecodable(n) == n % 3 = 2

\* The vboxsf_close calls among the transport calls cs.
Closes(cs) == Cardinality({i \in DOMAIN cs : cs[i] = "vboxsf_close"})

\* The handles an operation leaves open on the host: vboxsf_create gave it
\* one (got) and each vboxsf_close of cs was called on that handle; without
\* a handle, vboxsf_close is called on SHFL_HANDLE_NIL.
handle_balance(got, cs) == IF got THEN 1 - Closes(cs) ELSE 0

NullDir == [st |-> "NULL", info_list |-> <<>>]
ClosedFile == [opened |-> FALSE, private_data |-> NullDir, f_pos |-> 0]
\* Tasks that share struct file 1 (an inherited or duplicated descriptor).
Threads == {1, 2}

IdleThr == [pc |-> "idle", budget |-> 0, count |-> 0, stamp |-> -1, rerr |-> OK]

IdleIter == [pc |-> "idle", budget |-> 0, count |-> 0, err |-> "none",
             getdent |-> "none"]

\* ------------------------------------------------ utils.c (not in src/)

\* sf_dir_read_all: read-directory-chunk until "no more entries"; on a read
\* failure nothing that was accumulated stays in the sf_dir_info.
sf_dir_read_all(listing, fails) ==
    IF fails
    THEN [err |-> EIO, info_list |-> <<>>, calls |-> <<"vboxsf_dirinfo">>]
    ELSE [err |-> OK, info_list |-> Chunks(listing),
          calls |-> [i \in 1..(Len(Chunks(listing)) + 1) |-> "vboxsf_dirinfo"]]

\* sf_nlscpy: convert the host's name to the local encoding.
sf_nlscpy(name) ==
    IF Undecodable(name) THEN [err |-> EINVAL, d_name |-> 0]
    ELSE [err |-> OK, d_name |-> name]

\* sf_path_from_dentry: the parent's path plus the dentry's name.
sf_path_from_dentry(parent_path, name) == Append(parent_path, name)

\* sf_init_inode: the inode's type from the host's object info.
sf_init_inode(type) ==
    CASE type = SHFL_TYPE_DIRECTORY -> S_IFDIR
      [] type = SHFL_TYPE_SYMLINK   -> S_IFLNK
      [] OTHER                      -> S_IFREG

\* --------------------------------------------------------------- dirops.c

\* sf_get_d_type without the cases of lines 104-106.
sf_get_d_type_no_whiteout(type) ==
    CASE type = SHFL_TYPE_FIFO      -> "DT_FIFO"
      [] type = SHFL_TYPE_DEV_CHAR  -> "DT_CHR"
      [] type = SHFL_TYPE_DIRECTORY -> "DT_DIR"
      [] type = SHFL_TYPE_DEV_BLOCK -> "DT_BLK"
      [] type = SHFL_TYPE_FILE      -> "DT_REG"
      [] type = SHFL_TYPE_SYMLINK   -> "DT_LNK"
      [] type = SHFL_TYPE_SOCKET    -> "DT_SOCK"
      [] OTHER                      -> "DT_UNKNOWN"

\* sf_get_d_type: mode & SHFL_TYPE_MASK to DT_xxx.
sf_get_d_type(type) ==
    CASE type = SHFL_TYPE_FIFO      -> "DT_FIFO"
      [] type = SHFL_TYPE_DEV_CHAR  -> "DT_CHR"
      [] type = SHFL_TYPE_DIRECTORY -> "DT_DIR"
      [] type = SHFL_TYPE_DEV_BLOCK -> "DT_BLK"
      [] type = SHFL_TYPE_FILE      -> "DT_REG"
      [] type = SHFL_TYPE_SYMLINK   -> "DT_LNK"
      [] type = SHFL_TYPE_SOCKET    -> "DT_SOCK"
      [] type = SHFL_TYPE_WHITEOUT  -> "DT_WHT"
      [] OTHER                      -> "DT_UNKNOWN"

\* name.size of a record: the bytes of the name and its terminator; the
\* names differ in length.
name_size(name) == name + 1

\* A cell of a buffer that holds bytes of a name.
NameBytes == [bytes |-> "name.string"]

RECURSIVE buf_bytes(_)
\* b->buf of a buffer that holds the records b: each record is its fixed
\* part (one cell, offsetof(struct shfl_dirinfo, name.string)) followed by
\* name.size cells of name.
buf_bytes(b) ==
    IF b = <<>> THEN <<>>
    ELSE <<Head(b)>> \o [i \in 1..name_size(Head(b).name) |-> NameBytes]
         \o buf_bytes(Tail(b))

\* The step of the for loop with every record taken to have the size of
\* the first one.
info_next_fixed_size(buf, info) == info + 1 + name_size(buf[1].name)

\* 178-180: info = (uintptr_t) info + offsetof(...) + info->name.size
info_next(buf, info) == info + 1 + name_size(buf[info].name)

RECURSIVE info_seek(_, _, _)
\* 175-181: for (i = 0, info = b->buf; i < dir->f_pos - cur; ++i)
info_seek(buf, info, n) ==
    IF n = 0 THEN info ELSE info_seek(buf, info_next(buf, info), n - 1)

\* The record the for loop ends at in a buffer that holds the records b.
info_in(b, n) == buf_bytes(b)[info_seek(buf_bytes(b), 1, n)]

RECURSIVE entry_walk(_, _, _)
\* The list_for_each loop of sf_getdent: cur counts the entries of the
\* buffers passed; the entry is record f_pos - cur of the first buffer that
\* reaches f_pos.
entry_walk(info_list, f_pos, cur) ==
    IF info_list = <<>> THEN NoEntry
    ELSE LET b == Head(info_list) IN
         IF f_pos >= cur + Len(b)
         THEN entry_walk(Tail(info_list), f_pos, cur + Len(b))
         ELSE info_in(b, f_pos - cur)

entry_at(info_list, f_pos) == entry_walk(info_list, f_pos, 0)

\* What the loop reads through a dangling sf_dir_info: the memory may still
\* hold the list or may have been reused.
ReadableLists(pd) ==
    IF pd.st = "freed" THEN {pd.info_list, <<>>} ELSE {pd.info_list}

\* getdent_tail with the end of the list reported as an error.
getdent_tail_end_as_error(info_list, f_pos) ==
    LET info == entry_at(info_list, f_pos) IN
    IF info = NoEntry THEN [err |-> EINVAL, d_name |-> 0, d_type |-> "DT_UNKNOWN"]
    ELSE [err |-> sf_nlscpy(info.name).err,
          d_name |-> sf_nlscpy(info.name).d_name,
          d_type |-> sf_get_d_type(info.type)]

\* The tail of sf_getdent (lines 162-189) on the list it finds.
getdent_tail(info_list, f_pos) ==
    LET info == entry_at(info_list, f_pos) IN
    IF info = NoEntry THEN [err |-> END_REACHED, d_name |-> 0, d_type |-> "DT_UNKNOWN"]
    ELSE [err |-> sf_nlscpy(info.name).err,
          d_name |-> sf_nlscpy(info.name).d_name,
          d_type |-> sf_get_d_type(info.type)]

\* sf_getdent without line 159.
flag_after_refetch_kept(fr, err) == fr

\* sf_getdent with line 159 moved before the refetch.
flag_after_refetch_cleared(fr, err) == FALSE

\* 144-159: force_reread after a refetch that returned err: it is cleared
\* only when the whole refetch succeeded.
flag_after_refetch(fr, err) == IF err = OK THEN FALSE ELSE fr

\* 134-157: the ways the refetch of sf_getdent fails, each with what it
\* leaves behind.
refetch_failures(f) ==
    LET pd  == file[f].private_data
        fr  == sf_i[SessDir].force_reread
        bad == sf_dir_read_all(host[SessDir], TRUE)
        Err(e, npd, cs, got) ==
            [err |-> e, d_name |-> 0, d_type |-> "DT_UNKNOWN",
             pd |-> npd, force_reread |-> flag_after_refetch(fr, e),
             calls |-> cs, handle |-> got]
    IN
    { \* 144-146: vboxsf_create fails
      Err(EIO, pd, <<"vboxsf_create">>, FALSE),
      \* 148-151: the directory is gone: sf_dir_info_free(sf_d)
      Err(ENOENT, [pd EXCEPT !.st = "freed"], <<"vboxsf_create">>, FALSE),
      \* 153-157: sf_dir_info_empty, then sf_dir_read_all fails
      Err(bad.err, [pd EXCEPT !.info_list = bad.info_list],
          <<"vboxsf_create">> \o bad.calls \o <<"vboxsf_close">>, TRUE) }

\* sf_getdent: every outcome one call can have on file f, as
\* [err, d_name, d_type, pd, force_reread, calls, handle]; pd is the
\* sf_dir_info the call leaves behind file->private_data, handle tells
\* whether vboxsf_create returned a handle.
sf_getdent(f) ==
    LET pd  == file[f].private_data
        pos == file[f].f_pos
        fr  == sf_i[SessDir].force_reread
        ok  == sf_dir_read_all(host[SessDir], FALSE)
        Walk(npd, nfr, cs, got) ==
            {[err |-> getdent_tail(l, pos).err,
              d_name |-> getdent_tail(l, pos).d_name,
              d_type |-> getdent_tail(l, pos).d_type,
              pd |-> npd, force_reread |-> nfr, calls |-> cs, handle |-> got]
               : l \in ReadableLists(npd)}
    IN
    IF ~fr THEN Walk(pd, fr, <<>>, FALSE)
    ELSE
      (IF pos < MaxPos THEN refetch_failures(f) ELSE {})
      \cup
      \* 153-159: the list is emptied, read again, and the flag cleared
      Walk([pd EXCEPT !.info_list = ok.info_list], flag_after_refetch(fr, ok.err),
           <<"vboxsf_create">> \o ok.calls \o <<"vboxsf_close">>, TRUE)

\* loff_t, 64 bits, as four 16-bit limbs, the least significant first.
loff(n) == <<n % (2^16), (n \div (2^16)) % (2^16), 0, 0>>

\* a + b in 64 bits.
loff_add(a, b) ==
    LET s1 == a[1] + b[1]
        s2 == a[2] + b[2] + (s1 \div (2^16))
        s3 == a[3] + b[3] + (s2 \div (2^16))
        s4 == a[4] + b[4] + (s3 \div (2^16))
    IN <<s1 % (2^16), s2 % (2^16), s3 % (2^16), s4 % (2^16)>>

\* ctx->pos of the entry at cursor pos.
ctx_pos(pos) == loff_add(base, loff(pos))

\* sf_dir_iterate with sanity = ctx->pos.
sanity_of_no_offset(pos) == ctx_pos(pos)

\* 241: sanity = ctx->pos + 0xbeef.
sanity_of(pos) == loff_add(ctx_pos(pos), loff(FAKE_INO_OFFSET))

\* 242: fake_ino = sanity, where ino_t is unsigned and has 32 bits: the
\* two low limbs.
narrow_ino(sanity) == <<sanity[1], sanity[2]>>

\* sf_dir_iterate without lines 247-250.
ino_overflows_unchecked(sanity, fake_ino) == FALSE

\* 247: sanity - fake_ino, fake_ino converted to loff_t, is not 0.
ino_overflows(sanity, fake_ino) == sanity # <<fake_ino[1], fake_ino[2], 0, 0>>

\* ------------------------------------------------ directory file operations

\* sf_dir_iterate with the cursor advanced before dir_emit is asked.
pos_after_always_advanced(pos, accepted) == pos + 1

\* 251-255: the cursor after dir_emit accepted or refused the entry at pos.
pos_after(pos, accepted) == IF accepted THEN pos + 1 ELSE pos

\* sf_dir_open with sf_d attached whatever sf_dir_read_all returned.
open_attaches_always(err, sf_d) == sf_d

\* 42-52: what sf_dir_open leaves in file->private_data: the sf_dir_info
\* when sf_dir_read_all succeeded; otherwise nothing, the sf_dir_info and
\* the buffers it holds being freed.
open_attaches(err, sf_d) == IF err = OK THEN sf_d ELSE NullDir

\* Successful mutations of the session directory are counted on its open files.
NoteMutation(parents) ==
    mut' = [f \in Files |-> IF SessDir \in parents /\ file[f].opened
                            THEN mut[f] + 1 ELSE mut[f]]

\* The VFS without i_rwsem around the calls.
inode_unlocked(d) == FALSE

\* file_operations.iterate runs under the directory's i_rwsem held for
\* writing, as the directory inode operations do.
inode_locked(d) ==
    /\ d = SessDir
    /\ \/ \E f \in Files : iter[f].pc = "loop"
       \/ \E t \in Threads : thr[t].pc # "idle"

\* sf_dir_iterate registered as .iterate_shared: calls on one directory
\* run side by side.
iterate_shared(d) == FALSE

\* 261: sf_dir_iterate is registered as .iterate, so a call waits for every
\* other holder of the directory's i_rwsem, another sf_dir_iterate included.
iterate_excluded(d) == inode_locked(d)

\* sf_dir_open on a fresh struct file.
sf_dir_open(f) ==
    /\ ~file[f].opened
    /\ emitted' = [emitted EXCEPT ![f] = <<>>]
    /\ mut' = [mut EXCEPT ![f] = 0]
    /\ UNCHANGED <<host, inodeVars, iter, nops, kmem, auxVars>>
    /\ \/ \* 29-31: sf_dir_info_alloc fails
          /\ ret' = [op |-> "sf_dir_open", f |-> f, err |-> ENOMEM]
          /\ calls' = <<>>
          /\ UNCHANGED <<file, remote>>
       \/ \* 39: vboxsf_create fails
          /\ ret' = [op |-> "sf_dir_open", f |-> f, err |-> EIO]
          /\ calls' = <<"vboxsf_create">>
          /\ remote' = remote + handle_balance(FALSE, calls')
          /\ UNCHANGED file
       \/ \* 45-48: the host has no such directory
          /\ ret' = [op |-> "sf_dir_open", f |-> f, err |-> ENOENT]
          /\ calls' = <<"vboxsf_create", "vboxsf_close">>
          /\ remote' = remote + handle_balance(FALSE, calls')
          /\ UNCHANGED file
       \/ \* 42, 48, 51-52: a chunk read fails
          /\ ret' = [op |-> "sf_dir_open", f |-> f,
                     err |-> sf_dir_read_all(host[SessDir], TRUE).err]
          /\ calls' = <<"vboxsf_create">> \o sf_dir_read_all(host[SessDir], TRUE).calls
                         \o <<"vboxsf_close">>
          /\ remote' = remote + handle_balance(TRUE, calls')
          /\ file' = [file EXCEPT ![f].private_data =
                open_attaches(sf_dir_read_all(host[SessDir], TRUE).err,
                   [st |-> "freed",
                    info_list |-> sf_dir_read_all(host[SessDir], TRUE).info_list])]
       \/ \* 42-44, 48: the complete listing is attached
          /\ ret' = [op |-> "sf_dir_open", f |-> f, err |-> OK]
          /\ calls' = <<"vboxsf_create">> \o sf_dir_read_all(host[SessDir], FALSE).calls
                         \o <<"vboxsf_close">>
          /\ remote' = remote + handle_balance(TRUE, calls')
          /\ file' = [file EXCEPT ![f] =
                [opened |-> TRUE,
                 private_data |->
                    open_attaches(sf_dir_read_all(host[SessDir], FALSE).err,
                       [st |-> "live",
                        info_list |-> sf_dir_read_all(host[SessDir], FALSE).info_list]),
                 f_pos |-> 0]]

\* sf_dir_release: the last reference to the struct file is dropped.
sf_dir_release(f) ==
    /\ file[f].opened
    /\ iter[f].pc = "idle"
    /\ file' = [file EXCEPT ![f] = ClosedFile]
    /\ iter' = [iter EXCEPT ![f] = IdleIter]
    /\ emitted' = [emitted EXCEPT ![f] = <<>>]
    /\ mut' = [mut EXCEPT ![f] = 0]
    /\ ret' = [op |-> "sf_dir_release", f |-> f, err |-> OK]
    /\ calls' = <<>>
    /\ UNCHANGED <<host, inodeVars, nops, kmem, remote, auxVars>>

\* iterate_dir calls sf_dir_iterate with a buffer for `budget` entries.
iterate_begin(f) ==
    /\ file[f].opened
    /\ iter[f].pc = "idle"
    /\ ~iterate_excluded(SessDir)
    /\ \E budget \in 1..MaxRoom :
          iter' = [iter EXCEPT ![f] =
                     [pc |-> "loop", budget |-> budget, count |-> 0, err |-> "none",
                      getdent |-> "none"]]
    /\ UNCHANGED <<host, inodeVars, file, emitted, mut, ret, calls, nops, kmem, remote,
                   auxVars>>

\* One pass of sf_dir_iterate's for (;;) loop.
sf_dir_iterate(f) ==
    /\ iter[f].pc = "loop"
    /\ \E g \in sf_getdent(f) :
        LET pos     == file[f].f_pos
            sanity  == sanity_of(pos)
            fake_ino == narrow_ino(sanity)
            Return(e) ==
                /\ iter' = [iter EXCEPT ![f].pc = "idle", ![f].budget = 0, ![f].err = e,
                                        ![f].getdent = g.err]
                /\ ret' = [op |-> "sf_dir_iterate", f |-> f, err |-> e]
            Continue ==
                ret' = [op |-> "sf_dir_iterate", f |-> f, err |-> "pending"]
        IN
        /\ calls' = g.calls
        /\ remote' = remote + handle_balance(g.handle, g.calls)
        /\ sf_i' = [sf_i EXCEPT ![SessDir].force_reread = g.force_reread]
        /\ UNCHANGED <<host, child, last_ino, mut, nops, kmem, auxVars>>
        /\ \/ \* 226-227: end reached
              /\ g.err = END_REACHED
              /\ Return(OK)
              /\ file' = [file EXCEPT ![f].private_data = g.pd]
              /\ UNCHANGED emitted
           \/ \* 232-237: skip erroneous entry and proceed
              /\ g.err \notin {END_REACHED, OK}
              /\ Continue
              /\ file' = [file EXCEPT ![f].private_data = g.pd, ![f].f_pos = pos + 1]
              /\ iter' = [iter EXCEPT ![f].getdent = g.err]
              /\ UNCHANGED emitted
           \/ \* 240-255: a valid entry name: fake the inode number, dir_emit
              /\ g.err = OK
              /\ IF ino_overflows(sanity, fake_ino)
                 THEN \* 247-250: the number does not fit ino_t
                      /\ Return(EINVAL)
                      /\ file' = [file EXCEPT ![f].private_data = g.pd]
                      /\ UNCHANGED emitted
                 ELSE IF iter[f].count >= iter[f].budget
                 THEN \* 251-252: dir_emit finds the caller's buffer full
                      /\ Return(OK)
                      /\ file' = [file EXCEPT ![f].private_data = g.pd,
                                              ![f].f_pos = pos_after(pos, FALSE)]
                      /\ UNCHANGED emitted
                 ELSE \* 251-255: dir_emit takes the entry
                      /\ Continue
                      /\ emitted' = [emitted EXCEPT ![f] = Append(@,
                            [pos |-> pos, name |-> g.d_name, type |-> g.d_type,
                             ino |-> fake_ino])]
                      /\ iter' = [iter EXCEPT ![f].count = @ + 1, ![f].getdent = g.err]
                      /\ file' = [file EXCEPT ![f].private_data = g.pd,
                                              ![f].f_pos = pos_after(pos, TRUE)]

\* ------------------------------------------------- directory inode operations

\* vfsmod.c sf_alloc_inode: the sf_inode_info of a new inode.
sf_alloc_inode ==
    [path |-> <<>>, force_restat |-> FALSE, force_reread |-> FALSE,
     handle |-> SHFL_HANDLE_NIL]

\* iunique(sb, 1): the next number of the superblock's counter.
iunique == last_ino + 1

\* sf_path_from_dentry gave the operation a path buffer; the buffer an
\* inode owned, or the one just built, is released.
PATH_BUILT == "sf_path_from_dentry"
KFREE_PATH == "kfree(path)"
KFREE_INODE_PATH == "kfree(sf_file_i->path)"

\* sf_lookup without the kfree of line 298 when sf_stat returns -ENOENT.
lookup_kmem_negative_leak(err, found) ==
    IF err = OK THEN <<PATH_BUILT>> ELSE <<PATH_BUILT, KFREE_PATH>>

\* 292-311: sf_lookup keeps the buffer in the new inode and releases it
\* when there is none.
lookup_kmem(err, found) ==
    IF err = OK /\ found THEN <<PATH_BUILT>> ELSE <<PATH_BUILT, KFREE_PATH>>

\* sf_create_aux returning err where it goes to free_path.
create_kmem_leak(err) == <<PATH_BUILT>>

\* 396-426: sf_create_aux gives the buffer to sf_instantiate's inode; every
\* other exit goes through free_path.
create_kmem(err) ==
    IF err = OK THEN <<PATH_BUILT>> ELSE <<PATH_BUILT, KFREE_PATH>>

\* sf_unlink_aux returning err where it goes to free_path.
unlink_kmem_leak(err) ==
    IF err = OK THEN <<PATH_BUILT, KFREE_PATH>> ELSE <<PATH_BUILT>>

\* 484-495: sf_unlink_aux releases the buffer on both exits.
unlink_kmem(err) == <<PATH_BUILT, KFREE_PATH>>

\* sf_rename without line 563.
rename_kmem_leak(err) ==
    IF err = OK THEN <<PATH_BUILT>> ELSE <<PATH_BUILT, KFREE_PATH>>

\* 561-570: sf_rename releases the inode's old buffer when the host
\* renamed, the new one when it did not.
rename_kmem(err) ==
    IF err = OK THEN <<PATH_BUILT, KFREE_INODE_PATH>> ELSE <<PATH_BUILT, KFREE_PATH>>

\* 601-612: sf_symlink gives the buffer to sf_instantiate's inode; every
\* other exit goes through free_path.
symlink_kmem(err) ==
    IF err = OK THEN <<PATH_BUILT>> ELSE <<PATH_BUILT, KFREE_PATH>>

\* An inode operation returns e after the transport calls cs and the
\* path-buffer calls ks.
Done(op, e, cs, ks) ==
    /\ nops > 0
    /\ nops' = nops - 1
    /\ kmem' = ks
    /\ ret' = [op |-> op, f |-> 0, err |-> e]
    /\ calls' = cs
    /\ remote' = remote + handle_balance(FALSE, cs)

\* sf_instantiate with the inode taken as sf_read_super takes the root's,
\* iget_locked(sb, 0).
sf_instantiate_root_ino(path, type, handle) ==
    [ino |-> ROOT_INO, i_mode |-> sf_init_inode(type), path |-> path,
     force_restat |-> TRUE, force_reread |-> sf_alloc_inode.force_reread,
     handle |-> handle]

\* sf_instantiate: a new inode that owns path and handle, force_restat set.
sf_instantiate(path, type, handle) ==
    [ino |-> iunique, i_mode |-> sf_init_inode(type), path |-> path,
     force_restat |-> TRUE, force_reread |-> sf_alloc_inode.force_reread,
     handle |-> handle]

\* sf_lookup of a name that has no inode yet.
sf_lookup(parent, name) ==
    /\ child[parent][name] = NoInode
    /\ ~inode_locked(parent)
    /\ UNCHANGED <<host, sf_i, sessVars, mut>>
    /\ \/ \* 292-294: no memory for the path
          /\ Done("sf_lookup", ENOMEM, <<>>, <<>>)
          /\ UNCHANGED <<child, last_ino>>
       \/ \* 297-300: sf_stat fails with something else than -ENOENT
          /\ Done("sf_lookup", EIO, <<"vboxsf_fsinfo">>, lookup_kmem(EIO, FALSE))
          /\ UNCHANGED <<child, last_ino>>
       \/ \* 301-305, 320-323: -ENOENT, a negative dentry
          /\ ~HasName(host[parent], name)
          /\ Done("sf_lookup", OK, <<"vboxsf_fsinfo">>, lookup_kmem(OK, FALSE))
          /\ UNCHANGED <<child, last_ino>>
       \/ \* 307-312: the host has the object, but there is no inode for it
          /\ HasName(host[parent], name)
          /\ Done("sf_lookup", ENOMEM, <<"vboxsf_fsinfo">>, lookup_kmem(ENOMEM, FALSE))
          /\ last_ino' = iunique
          /\ UNCHANGED child
       \/ \* 307-318: a new inode owns the path
          /\ HasName(host[parent], name)
          /\ Done("sf_lookup", OK, <<"vboxsf_fsinfo">>, lookup_kmem(OK, TRUE))
          /\ last_ino' = iunique
          /\ child' = [child EXCEPT ![parent][name] =
                [ino |-> iunique,
                 i_mode |-> sf_init_inode(host[parent][IndexOf(host[parent], name)].type),
                 path |-> sf_path_from_dentry(sf_i[parent].path, name),
                 force_restat |-> sf_alloc_inode.force_restat,
                 force_reread |-> sf_alloc_inode.force_reread,
                 handle |-> sf_alloc_inode.handle]]

\* sf_create_aux without the close_handle label (lines 421-422).
create_aux_calls_no_close_handle(fDirectory, instantiated) ==
    IF fDirectory /\ instantiated THEN <<"vboxsf_create", "vboxsf_close">>
    ELSE <<"vboxsf_create">>

\* 396-422: the transport calls of sf_create_aux once the host has created
\* the object: the handle is closed unless a regular file's inode keeps it.
create_aux_calls(fDirectory, instantiated) ==
    IF fDirectory \/ ~instantiated THEN <<"vboxsf_create", "vboxsf_close">>
    ELSE <<"vboxsf_create">>

\* sf_create_aux without line 418.
create_parent_flags_none(i) == i

\* What a successful sf_create_aux leaves on the parent's sf_inode_info.
create_parent_flags(i) == [i EXCEPT !.force_restat = TRUE]

\* sf_create_aux passing SHFL_HANDLE_NIL to sf_instantiate for a regular
\* file as well.
instantiate_handle_nil(fDirectory, handle) == SHFL_HANDLE_NIL

\* 405-406: the handle sf_create_aux passes to sf_instantiate: the one
\* vboxsf_create returned for a regular file, none for a directory.
instantiate_handle(fDirectory, handle) ==
    IF fDirectory THEN SHFL_HANDLE_NIL ELSE handle

\* sf_create_aux on a negative dentry; params.handle, the handle
\* vboxsf_create returns, is named by the path it was opened on.
sf_create_aux(parent, name, fDirectory) ==
    LET path == sf_path_from_dentry(sf_i[parent].path, name)
        type == IF fDirectory THEN SHFL_TYPE_DIRECTORY ELSE SHFL_TYPE_FILE
        op   == IF fDirectory THEN "sf_mkdir" ELSE "sf_create"
        \* the return value after the host has created the object
        Created(e, cs) ==
            /\ nops > 0
            /\ nops' = nops - 1
            /\ kmem' = create_kmem(e)
            /\ ret' = [op |-> op, f |-> 0, err |-> e]
            /\ calls' = cs
            /\ remote' = remote + handle_balance(TRUE, cs)
    IN
    /\ child[parent][name] = NoInode
    /\ ~inode_locked(parent)
    /\ UNCHANGED sessVars
    /\ \/ \* 382-384: no memory for the path
          /\ Done(op, ENOMEM, <<>>, <<>>)
          /\ UNCHANGED <<host, inodeVars, mut>>
       \/ \* 396-398: vboxsf_create fails
          /\ Done(op, EIO, <<"vboxsf_create">>, create_kmem(EIO))
          /\ UNCHANGED <<host, inodeVars, mut>>
       \/ \* 400-403: the name exists already
          /\ HasName(host[parent], name)
          /\ Done(op, EPERM, <<"vboxsf_create">>, create_kmem(EPERM))
          /\ UNCHANGED <<host, inodeVars, mut>>
       \/ \* 405-408, 421-426: created on the host, but no inode
          /\ ~HasName(host[parent], name)
          /\ Created(ENOMEM, create_aux_calls(fDirectory, FALSE))
          /\ host' = [host EXCEPT ![parent] = Append(@, [name |-> name, type |-> type])]
          /\ last_ino' = iunique
          /\ NoteMutation({parent})
          /\ UNCHANGED <<sf_i, child>>
       \/ \* 405-419: created and instantiated
          /\ ~HasName(host[parent], name)
          /\ Created(OK, create_aux_calls(fDirectory, TRUE))
          /\ host' = [host EXCEPT ![parent] = Append(@, [name |-> name, type |-> type])]
          /\ last_ino' = iunique
          /\ child' = [child EXCEPT ![parent][name] =
                sf_instantiate(path, type, instantiate_handle(fDirectory, path))]
          /\ sf_i' = [sf_i EXCEPT ![parent] = create_parent_flags(@)]
          /\ NoteMutation({parent})

sf_create(parent, name) == sf_create_aux(parent, name, FALSE)
sf_mkdir(parent, name) == sf_create_aux(parent, name, TRUE)

\* sf_unlink_aux without line 491.
unlink_parent_flags_restat_only(i) == [i EXCEPT !.force_restat = TRUE]

\* What a successful sf_unlink_aux leaves on the parent's sf_inode_info.
unlink_parent_flags(i) == [i EXCEPT !.force_restat = TRUE, !.force_reread = TRUE]

\* sf_unlink_aux with the symlink test of line 480 as a test for any of the
\* bits of S_IFLNK.
unlink_flags_any_bit(fDirectory, d_inode) ==
    {IF fDirectory THEN "SHFL_REMOVE_DIR" ELSE "SHFL_REMOVE_FILE"}
    \cup (IF d_inode # NoInode /\ S_IFLNK \cap d_inode.i_mode # {}
          THEN {"SHFL_REMOVE_SYMLINK"} ELSE {})

\* 478-482: the flags of the remove call, from fDirectory and
\* dentry->d_inode, which may be NULL.
unlink_flags(fDirectory, d_inode) ==
    {IF fDirectory THEN "SHFL_REMOVE_DIR" ELSE "SHFL_REMOVE_FILE"}
    \cup (IF d_inode # NoInode /\ S_IFLNK \subseteq d_inode.i_mode
          THEN {"SHFL_REMOVE_SYMLINK"} ELSE {})

\* sf_unlink_aux on a positive dentry; the VFS then drops the dentry's inode.
sf_unlink_aux(parent, name, fDirectory) ==
    LET op == IF fDirectory THEN "sf_rmdir" ELSE "sf_unlink"
        \* 484: the return value, noted with the flags of the remove call
        Removed(e, ks) ==
            /\ nops > 0
            /\ nops' = nops - 1
            /\ kmem' = ks
            /\ ret' = [op |-> op, f |-> 0, err |-> e,
                       parent |-> parent, name |-> name,
                       shfl_flags |-> unlink_flags(fDirectory, child[parent][name])]
            /\ calls' = <<"vboxsf_remove">>
            /\ remote' = remote + handle_balance(FALSE, <<"vboxsf_remove">>)
    IN
    /\ child[parent][name] # NoInode
    /\ fDirectory = (child[parent][name].i_mode = S_IFDIR)
    /\ ~inode_locked(parent)
    /\ UNCHANGED <<file, iter, emitted, base, thr, lst, hwVars, last_ino>>
    /\ \/ \* 474-476: no memory for the path
          /\ Done(op, ENOMEM, <<>>, <<>>)
          /\ UNCHANGED <<host, sf_i, child, mut, dropped>>
       \/ \* 484-486: vboxsf_remove fails
          /\ Removed(EIO, unlink_kmem(EIO))
          /\ UNCHANGED <<host, sf_i, child, mut, dropped>>
       \/ \* 488-495: removed
          /\ HasName(host[parent], name)
          /\ Removed(OK, unlink_kmem(OK))
          /\ host' = [host EXCEPT ![parent] = RemoveName(@, name)]
          /\ sf_i' = [sf_i EXCEPT ![parent] = unlink_parent_flags(@)]
          /\ child' = [child EXCEPT ![parent][name] = NoInode]
          /\ dropped' = dropped \cup {child[parent][name]}
          /\ NoteMutation({parent})

sf_unlink(parent, name) == sf_unlink_aux(parent, name, FALSE)
sf_rmdir(parent, name) == sf_unlink_aux(parent, name, TRUE)

\* generic rename flags: none, RENAME_NOREPLACE, RENAME_EXCHANGE
RenameFlags == {0, 1, 2}

\* 537, 558-559: the flags of the rename call.
rename_flags(i_mode) ==
    IF S_IFDIR \cap i_mode # {} THEN {}
    ELSE {"SHFL_RENAME_FILE", "SHFL_RENAME_REPLACE_IF_EXISTS"}

\* sf_rename without lines 551-552.
rename_rejects_flags_only(old_parent, new_parent, flags) == flags # 0

\* sf_rename without lines 548-549.
rename_rejects_share_only(old_parent, new_parent, flags) ==
    sb_of(old_parent) # sb_of(new_parent)

\* 548-552: the arguments sf_rename refuses before it does anything.
rename_rejects(old_parent, new_parent, flags) ==
    flags # 0 \/ sb_of(old_parent) # sb_of(new_parent)

\* sf_rename of a positive dentry; on success the VFS moves the dentry.
sf_rename(old_parent, old_name, new_parent, new_name, flags) ==
    LET inode == child[old_parent][old_name]
        path == sf_path_from_dentry(sf_i[new_parent].path, new_name)
        shfl_flags == rename_flags(inode.i_mode)
        moved == [name |-> new_name,
                  type |-> host[old_parent][IndexOf(host[old_parent], old_name)].type]
        host1 == [host EXCEPT ![old_parent] = RemoveName(@, old_name)]
        host2 == [host1 EXCEPT ![new_parent] = Append(RemoveName(@, new_name), moved)]
        child1 == [child EXCEPT ![old_parent][old_name] = NoInode]
        child2 == [child1 EXCEPT ![new_parent][new_name] = [inode EXCEPT !.path = path]]
        sf_i1 == [sf_i EXCEPT ![new_parent].force_restat = TRUE]
        sf_i2 == [sf_i1 EXCEPT ![old_parent].force_restat = TRUE]
        \* the return value, noted with the arguments of the call
        Returns(e, cs, ks) ==
            /\ nops > 0
            /\ nops' = nops - 1
            /\ kmem' = ks
            /\ ret' = [op |-> "sf_rename", f |-> 0, err |-> e,
                       old_parent |-> old_parent, new_parent |-> new_parent,
                       old_name |-> old_name,
                       flags |-> flags, shfl_flags |-> shfl_flags]
            /\ calls' = cs
            /\ remote' = remote + handle_balance(FALSE, cs)
    IN
    /\ inode # NoInode
    /\ <<old_parent, old_name>> # <<new_parent, new_name>>
    /\ ~inode_locked(old_parent) /\ ~inode_locked(new_parent)
    /\ UNCHANGED <<file, iter, emitted, base, thr, lst, hwVars, last_ino>>
    /\ \/ \* 548-552: flags, or another share
          /\ rename_rejects(old_parent, new_parent, flags)
          /\ Returns(EINVAL, <<>>, <<>>)
          /\ UNCHANGED <<host, sf_i, child, mut, dropped>>
       \/ \* 554-556: no memory for the path
          /\ ~rename_rejects(old_parent, new_parent, flags)
          /\ Returns(ENOMEM, <<>>, <<>>)
          /\ UNCHANGED <<host, sf_i, child, mut, dropped>>
       \/ \* 561, 568-570: vboxsf_rename fails
          /\ ~rename_rejects(old_parent, new_parent, flags)
          /\ Returns(EIO, <<"vboxsf_rename">>, rename_kmem(EIO))
          /\ UNCHANGED <<host, sf_i, child, mut, dropped>>
       \/ \* 561-567: renamed, the inode owns the new path
          /\ ~rename_rejects(old_parent, new_parent, flags)
          /\ HasName(host[old_parent], old_name)
          /\ HasName(host[new_parent], new_name)
                => "SHFL_RENAME_REPLACE_IF_EXISTS" \in shfl_flags
          /\ Returns(OK, <<"vboxsf_rename">>, rename_kmem(OK))
          /\ host' = host2
          /\ child' = child2
          /\ dropped' = dropped \cup ({child[new_parent][new_name]} \ {NoInode})
          /\ sf_i' = sf_i2
          /\ NoteMutation({old_parent, new_parent})

\* What a successful sf_symlink leaves on the parent's sf_inode_info.
symlink_parent_flags(i) == [i EXCEPT !.force_restat = TRUE]

\* sf_symlink on a negative dentry.
sf_symlink(parent, name) ==
    LET path == sf_path_from_dentry(sf_i[parent].path, name) IN
    /\ child[parent][name] = NoInode
    /\ ~inode_locked(parent)
    /\ UNCHANGED sessVars
    /\ \/ \* 588-596: no memory for the path or for the target string
          /\ \E ks \in {<<>>, symlink_kmem(ENOMEM)} :
                Done("sf_symlink", ENOMEM, <<>>, ks)
          /\ UNCHANGED <<host, inodeVars, mut>>
       \/ \* 601-605: vboxsf_symlink fails
          /\ Done("sf_symlink", EIO, <<"vboxsf_symlink">>, symlink_kmem(EIO))
          /\ UNCHANGED <<host, inodeVars, mut>>
       \/ \* 607-609: linked on the host, but no inode
          /\ ~HasName(host[parent], name)
          /\ Done("sf_symlink", ENOMEM, <<"vboxsf_symlink">>, symlink_kmem(ENOMEM))
          /\ host' = [host EXCEPT ![parent] =
                        Append(@, [name |-> name, type |-> SHFL_TYPE_SYMLINK])]
          /\ last_ino' = iunique
          /\ NoteMutation({parent})
          /\ UNCHANGED <<sf_i, child>>
       \/ \* 607-612: linked and instantiated
          /\ ~HasName(host[parent], name)
          /\ Done("sf_symlink", OK, <<"vboxsf_symlink">>, symlink_kmem(OK))
          /\ host' = [host EXCEPT ![parent] =
                        Append(@, [name |-> name, type |-> SHFL_TYPE_SYMLINK])]
          /\ last_ino' = iunique
          /\ child' = [child EXCEPT ![parent][name] =
                sf_instantiate(path, SHFL_TYPE_SYMLINK, SHFL_HANDLE_NIL)]
          /\ sf_i' = [sf_i EXCEPT ![parent] = symlink_parent_flags(@)]
          /\ NoteMutation({parent})

\* ---------------------------------------------------------- specifications

DirPath(d) == <<d>>

\* The alternate modes the partner offers; each has a device under the
\* partner and one under the port.
Alts == {1, 2}

\* A port and a partner right after the partner's modes were registered.
TypecStart(port_ops, partner_ops) ==
    [active |-> [a \in Alts |-> FALSE],
     port_active |-> [a \in Alts |-> FALSE],
     sent |-> [a \in Alts |-> FALSE],
     pins |-> TYPEC_STATE_USB,
     ops |-> [port |-> port_ops, partner |-> partner_ops],
     op |-> [fn |-> "probe", dev |-> "port", alt |-> 0],
     ret |-> OK,
     log |-> <<>>]

\* The tasks that write DUAL_ROLE_CFG0: the caller of the role switch's
\* set operation and the vbus work.
ChtTasks == {"role", "vbus"}

ChtIdle ==
    [pc |-> "idle", role |-> USB_ROLE_DEVICE, valid |-> FALSE, val |-> {},
     acquired |-> FALSE, ret |-> OK]

\* The role switch right after probe, the register holding cfg0.
ChtStart(cfg0, configured) ==
    [cfg0 |-> cfg0, cfg0_start |-> cfg0, configured |-> configured,
     glock |-> "none",
     task |-> [t \in ChtTasks |-> ChtIdle]]

InitHw ==
    /\ typec = TypecStart(TRUE, TRUE)
    /\ cht = ChtStart({}, TRUE)

InitMount ==
    /\ sf_i = [d \in Dirs |-> [sf_alloc_inode EXCEPT !.path = DirPath(d)]]
    /\ dropped = {}
    /\ file = [f \in Files |-> ClosedFile]
    /\ iter = [f \in Files |-> IdleIter]
    /\ emitted = [f \in Files |-> <<>>]
    /\ mut = [f \in Files |-> 0]
    /\ ret = [op |-> "mount", f |-> 0, err |-> OK]
    /\ calls = <<>>
    /\ kmem = <<>>
    /\ remote = 0
    /\ thr = [t \in Threads |-> IdleThr]
    /\ lst = [emptied |-> FALSE, old |-> <<>>, new |-> <<>>,
              done |-> [s \in 0..MaxOps |-> 0], by |-> 0]

InitLocal == InitHw /\ InitMount

Listing(s) == [i \in 1..Len(s) |-> [name |-> s[i], type |-> InitType(s[i])]]

\* The inode sf_lookup left on the dentry of the i-th entry of a listing.
looked_up(parent, list, i) ==
    [ino |-> 1 + i, i_mode |-> sf_init_inode(list[i].type),
     path |-> sf_path_from_dentry(DirPath(parent), list[i].name),
     force_restat |-> sf_alloc_inode.force_restat,
     force_reread |-> sf_alloc_inode.force_reread,
     handle |-> sf_alloc_inode.handle]

\* The session directory holds any set of names, listed in ascending order,
\* and each entry has been looked up, in listing order; the other
\* directories are empty.
InitListing ==
    /\ \E S \in SUBSET Names :
          host = [d \in Dirs |-> IF d = SessDir THEN Listing(Ascending(S)) ELSE <<>>]
    /\ child = [d \in Dirs |-> [n \in Names |->
                  IF HasName(host[d], n)
                  THEN looked_up(d, host[d], IndexOf(host[d], n)) ELSE NoInode]]
    /\ last_ino = 1 + Len(host[SessDir])
    /\ InitLocal

InitShare == InitListing /\ nops = MaxMut

\* host writes out the whole listing.
Init == InitShare /\ base = loff(0)

Next ==
    \/ sf_dir_open(1)
    \/ sf_dir_release(1)
    \/ iterate_begin(1)
    \/ sf_dir_iterate(1)
    \/ \E n \in Names : sf_lookup(SessDir, n)
    \/ \E n \in Names : sf_create(SessDir, n)
    \/ \E n \in Names : sf_mkdir(SessDir, n)
    \/ \E n \in Names : sf_unlink(SessDir, n)
    \/ \E n \in Names : sf_rmdir(SessDir, n)
    \/ \E n \in Names : sf_symlink(SessDir, n)

Spec == Init /\ [][Next]_vars

\* Every directory holds the same two entries, none looked up yet; no file
\* is opened.
InitOps ==
    /\ host = [d \in Dirs |-> Listing(<<1, 2>>)]
    /\ child = [d \in Dirs |-> [n \in Names |-> NoInode]]
    /\ last_ino = 1
    /\ nops = MaxOps
    /\ InitLocal
    /\ base = loff(0)

NextOps ==
    \/ \E p \in Dirs, n \in Names : sf_lookup(p, n)
    \/ \E p \in Dirs, n \in Names : sf_create(p, n)
    \/ \E p \in Dirs, n \in Names : sf_mkdir(p, n)
    \/ \E p \in Dirs, n \in Names : sf_unlink(p, n)
    \/ \E p \in Dirs, n \in Names : sf_rmdir(p, n)
    \/ \E p \in Dirs, n \in Names : sf_symlink(p, n)
    \/ \E op \in Dirs, on \in Names, np \in Dirs, nn \in Names, fl \in RenameFlags :
          sf_rename(op, on, np, nn, fl)

SpecOps == InitOps /\ [][NextOps]_vars

\* Two open file descriptions of the session directory, whose entries are
\* removed.
NextTwo ==
    \/ \E f \in Files : sf_dir_open(f)
    \/ \E f \in Files : sf_dir_release(f)
    \/ \E f \in Files : iterate_begin(f)
    \/ \E f \in Files : sf_dir_iterate(f)
    \/ \E n \in Names : sf_unlink(SessDir, n)
    \/ \E n \in Names : sf_rmdir(SessDir, n)

SpecTwo == Init /\ [][NextTwo]_vars

\* ------------------------------------------------------------- properties

\* The entries of the listing file f holds.
Buffered(f) == Flatten(file[f].private_data.info_list)

\* This step is one pass of sf_dir_iterate's loop on file f.
IteratePass(f) == iter[f].pc = "loop" /\ ret'.op = "sf_dir_iterate" /\ ret'.f = f

\* This step is a pass on file f whose refetch failed: force_reread was set
\* and stays set.
RefetchFailed(f) ==
    IteratePass(f) /\ sf_i[SessDir].force_reread /\ sf_i'[SessDir].force_reread

\* The last call of sf_dir_iterate on file f returned 0 and emitted nothing.
Complete(f) ==
    file[f].opened /\ iter[f].pc = "idle" /\ iter[f].err = OK /\ iter[f].count = 0

\* The cursor of file f is inside the listing it holds.
MidListing(f) ==
    file[f].opened /\ 0 < file[f].f_pos /\ file[f].f_pos < Len(Buffered(f))

\* What dir_emit is given for entry e at cursor pos.
Emitted(e, pos) ==
    [pos |-> pos, name |-> e.name, type |-> sf_get_d_type(e.type),
     ino |-> narrow_ino(sanity_of(pos))]

NameTypes(es) == [i \in 1..Len(es) |-> <<es[i].name, es[i].type>>]

\* C1: a complete enumeration (the last call emitted nothing and returned
\* 0) of a directory whose N entries are all decodable, not mutated since
\* the open, accepted exactly N entries: each listing ordinal once, in
\* listing order.
C1_EnumerationAcceptsEveryEntry ==
    (/\ Complete(1)
     /\ mut[1] = 0
     /\ \A i \in 1..Len(host[SessDir]) : ~Undecodable(host[SessDir][i].name))
    => /\ Len(emitted[1]) = Len(host[SessDir])
       /\ \A i \in 1..Len(emitted[1]) :
             emitted[1][i] = Emitted(host[SessDir][i], i - 1)

\* C2: the first pass of the enumerate-step that follows a successful
\* create or mkdir in the session directory, on a session whose cursor is
\* mid-listing, refetches the listing (vboxsf_create is its first transport
\* call) and the listing it then holds is the host's, new entry included.
C2_CreateForcesRefetch ==
    [][(/\ ret.op \in {"sf_create", "sf_mkdir"}
        /\ ret.err = OK
        /\ MidListing(1)
        /\ IteratePass(1))
       => /\ calls' # <<>>
          /\ Head(calls') = "vboxsf_create"
          /\ Flatten(file'[1].private_data.info_list) = host[SessDir]]_vars

\* C3: every successful create, mkdir, unlink, rmdir, symlink and rename
\* leaves force_reread set on each parent directory whose content it changed.
C3_MutationSetsForceReread ==
    [][(/\ nops' # nops
        /\ ret'.err = OK
        /\ ret'.op \in {"sf_create", "sf_mkdir", "sf_unlink", "sf_rmdir",
                        "sf_symlink", "sf_rename"})
       => \A d \in Dirs : host'[d] # host[d] => sf_i'[d].force_reread]_vars

\* C4: a pass of sf_dir_iterate whose refetch fails returns the error to the
\* caller and leaves the cursor where it was.
C4_RefetchFailureReturned ==
    [][RefetchFailed(1)
       => /\ iter'[1].pc = "idle"
          /\ ret'.err \notin {OK, "pending"}
          /\ file'[1].f_pos = file[1].f_pos]_vars

\* C5: a refetch that fails leaves the sf_dir_info of the session, and the
\* buffers it holds, as they were before the refetch began.
C5_RefetchFailureKeepsListing ==
    [][RefetchFailed(1) => file'[1].private_data = file[1].private_data]_vars

\* An entry was removed after the first enumerate-step (budget 1) emitted
\* ordinal 0, and this step is the first pass of the second enumerate-step
\* (budget 1).
DeletedBetweenSteps ==
    /\ ret.op \in {"sf_unlink", "sf_rmdir"}
    /\ ret.err = OK
    /\ mut[1] = 1
    /\ file[1].f_pos = 1
    /\ Len(emitted[1]) = 1
    /\ iter[1].budget = 1
    /\ IteratePass(1)

\* A session opened after the last mutation of the directory has emitted
\* only names the directory holds, so none that was deleted before the open.
FreshOpenOmitsDeleted ==
    (file[1].opened /\ mut[1] = 0)
    => \A i \in 1..Len(emitted[1]) : HasName(host[SessDir], emitted[1][i].name)

\* C6 (as stated): when an entry is deleted between the first and the second
\* enumerate-step (budget 1) and no transport call of the second step fails,
\* the second step emits the entry the listing the session held before the
\* deletion has at ordinal 1; and a session opened after the deletion
\* enumerates without the deleted entry.
C6_SecondStepEmitsBufferedEntry ==
    /\ [][(/\ DeletedBetweenSteps
            /\ ~RefetchFailed(1)
            /\ entry_at(file[1].private_data.info_list, 1) # NoEntry
            /\ ~Undecodable(entry_at(file[1].private_data.info_list, 1).name))
           => emitted'[1] = Append(emitted[1],
                 Emitted(entry_at(file[1].private_data.info_list, 1), 1))]_vars
    /\ []FreshOpenOmitsDeleted

\* C6 (amended): when an entry is deleted between the first and the second
\* enumerate-step (budget 1), the second step refetches the listing; when
\* the refetch succeeds the session holds the host's listing without the
\* deleted entry and the step emits the entry that listing has at ordinal 1,
\* skips it when its name is undecodable, and returns 0 without emitting
\* when the listing has no ordinal 1; and a session opened after the
\* deletion enumerates without the deleted entry.
C6_SecondStepEmitsRefetchedEntry ==
    /\ [][DeletedBetweenSteps
           => /\ calls' # <<>>
              /\ Head(calls') = "vboxsf_create"
              /\ ~sf_i'[SessDir].force_reread
                    => /\ Flatten(file'[1].private_data.info_list) = host[SessDir]
                       /\ IF Len(host[SessDir]) < 2
                          THEN /\ emitted' = emitted
                               /\ iter'[1].pc = "idle"
                               /\ ret'.err = OK
                          ELSE IF Undecodable(host[SessDir][2].name)
                          THEN /\ emitted' = emitted
                               /\ file'[1].f_pos = 2
                          ELSE /\ emitted'[1] = Append(emitted[1],
                                      Emitted(host[SessDir][2], 1))
                               /\ file'[1].f_pos = 2]_vars
    /\ []FreshOpenOmitsDeleted

\* C6 witness: the first step emitted x, x was then deleted, and the second
\* step refetched a listing that still has an entry but none at ordinal 1,
\* so it returned 0 without emitting the entry that followed x.
C6_Witness ==
    /\ file[1].opened
    /\ mut[1] = 1
    /\ ret.op = "sf_dir_iterate" /\ ret.err = OK
    /\ calls # <<>>
    /\ ~sf_i[SessDir].force_reread
    /\ file[1].f_pos = 1
    /\ Len(emitted[1]) = 1
    /\ ~HasName(host[SessDir], emitted[1][1].name)
    /\ Len(host[SessDir]) = 1

\* C7: two complete enumerations of the session directory, each from a fresh
\* open, with no mutation of the directory since either open, emitted the
\* same sequence of (name, type) pairs.
C7_EnumerationsAgree ==
    (Complete(1) /\ Complete(2) /\ mut[1] = 0 /\ mut[2] = 0)
    => NameTypes(emitted[1]) = NameTypes(emitted[2])

\* C8: a pass that finds an undecodable name advances the cursor by one,
\* emits nothing and goes on; and a complete enumeration of a directory of
\* k+2 entries whose only undecodable entry is at ordinal k, not mutated
\* since the open, accepted exactly k+1 entries.
C8_UndecodableEntrySkipped ==
    /\ [][(/\ IteratePass(1)
            /\ ~sf_i[SessDir].force_reread
            /\ file[1].private_data.st = "live"
            /\ entry_at(file[1].private_data.info_list, file[1].f_pos) # NoEntry
            /\ Undecodable(entry_at(file[1].private_data.info_list,
                                    file[1].f_pos).name))
           => /\ file'[1].f_pos = file[1].f_pos + 1
              /\ emitted' = emitted
              /\ iter'[1].pc = "loop"]_vars
    /\ [](LET l == host[SessDir] IN
          (/\ Complete(1)
           /\ mut[1] = 0
           /\ Len(l) >= 2
           /\ \A i \in 1..Len(l) : Undecodable(l[i].name) <=> i = Len(l) - 1)
          => Len(emitted[1]) = Len(l) - 1)

\* C9: a rename whose old and new parent are on different shares returns
\* -EINVAL, issues no transport call, and changes no path and no
\* force_restat or force_reread flag (and nothing on the host).
C9_CrossShareRenameRejected ==
    [][(/\ nops' # nops
        /\ ret'.op = "sf_rename"
        /\ sb_of(ret'.old_parent) # sb_of(ret'.new_parent))
       => /\ ret'.err = EINVAL
          /\ calls' = <<>>
          /\ UNCHANGED <<sf_i, child, host>>]_vars

\* C9 witness: a rename between two shares, with flags 0, of an entry that
\* has an inode and a path, has returned -EINVAL.
C9_Witness ==
    /\ ret.op = "sf_rename"
    /\ ret.flags = 0
    /\ sb_of(ret.old_parent) # sb_of(ret.new_parent)
    /\ ret.err = EINVAL
    /\ \E n \in Names : child[ret.old_parent][n] # NoInode

\* C10: a rename called with nonzero flags returns -EINVAL, issues no
\* transport call, and changes no path and no force_restat or force_reread
\* flag (and nothing on the host).
C10_RenameFlagsRejected ==
    [][(/\ nops' # nops
        /\ ret'.op = "sf_rename"
        /\ ret'.flags # 0)
       => /\ ret'.err = EINVAL
          /\ calls' = <<>>
          /\ UNCHANGED <<sf_i, child, host>>]_vars

\* C10 witness: a rename inside one share, with nonzero flags, of an entry
\* that has an inode and a path, has returned -EINVAL.
C10_Witness ==
    /\ ret.op = "sf_rename"
    /\ ret.flags # 0
    /\ sb_of(ret.old_parent) = sb_of(ret.new_parent)
    /\ ret.err = EINVAL
    /\ \E n \in Names : child[ret.old_parent][n] # NoInode

\* This step is a call of sf_dir_open on file f.
OpenStep(f) == ~file[f].opened /\ ret'.op = "sf_dir_open" /\ ret'.f = f

\* This step is a directory inode operation named in ops.
InodeOpStep(ops) == nops' # nops /\ ret'.op \in ops

\* C11: sf_dir_open, a pass of sf_dir_iterate (with its refetch, if any) and
\* sf_create / sf_mkdir leave on the host no handle they obtained: each is
\* closed exactly once before the operation returns, on every exit path;
\* only a successful sf_create leaves one handle open, and the new inode
\* holds it.
C11_HandlesClosedOnEveryPath ==
    [][(OpenStep(1) \/ IteratePass(1) \/ InodeOpStep({"sf_create", "sf_mkdir"}))
       => IF InodeOpStep({"sf_create"}) /\ ret'.err = OK
          THEN /\ remote' = remote + 1
               /\ \E n \in Names :
                     /\ child[SessDir][n] = NoInode
                     /\ child'[SessDir][n] # NoInode
                     /\ child'[SessDir][n].handle # SHFL_HANDLE_NIL
          ELSE remote' = remote]_vars

\* C11 witness: sf_create or sf_mkdir obtained a handle, failed in
\* sf_instantiate, closed the handle and returned the error.
C11_Witness ==
    /\ ret.op \in {"sf_create", "sf_mkdir"}
    /\ ret.err = ENOMEM
    /\ calls = <<"vboxsf_create", "vboxsf_close">>
    /\ remote = 0

\* C15: when dir_emit refuses an entry (the caller's buffer is full),
\* sf_dir_iterate returns 0, emits nothing and leaves the cursor at that
\* entry, which is still the one the list has at the cursor; the first pass
\* of a call that finds a decodable entry at the cursor, no refetch being
\* due, emits that very entry at that cursor; and the emitted cursor
\* positions increase strictly and lie before the cursor, so no entry is
\* emitted twice.
C15_RefusedEntryOfferedAgain ==
    /\ [][(/\ IteratePass(1)
            /\ iter'[1].getdent = OK
            /\ iter[1].count >= iter[1].budget)
           => /\ iter'[1].pc = "idle"
              /\ ret'.err = OK
              /\ emitted' = emitted
              /\ file'[1].f_pos = file[1].f_pos
              /\ ~sf_i'[SessDir].force_reread
              /\ file'[1].private_data.st = "live"
                    => /\ entry_at(file'[1].private_data.info_list,
                                   file'[1].f_pos) # NoEntry
                       /\ ~Undecodable(entry_at(file'[1].private_data.info_list,
                                                file'[1].f_pos).name)]_vars
    /\ [][(/\ IteratePass(1)
            /\ iter[1].getdent = "none"
            /\ ~sf_i[SessDir].force_reread
            /\ file[1].private_data.st = "live"
            /\ entry_at(file[1].private_data.info_list, file[1].f_pos) # NoEntry
            /\ ~Undecodable(entry_at(file[1].private_data.info_list,
                                     file[1].f_pos).name))
           => /\ emitted'[1] = Append(emitted[1],
                    Emitted(entry_at(file[1].private_data.info_list,
                                     file[1].f_pos), file[1].f_pos))
              /\ file'[1].f_pos = file[1].f_pos + 1]_vars
    /\ [](\A i \in 1..Len(emitted[1]) :
             /\ emitted[1][i].pos < file[1].f_pos
             /\ i > 1 => emitted[1][i - 1].pos < emitted[1][i].pos)

\* C15 witness: a call with budget 1 emitted the entry at cursor 0, was
\* refused the next one and returned 0; the next call emitted the entry at
\* cursor 1.
C15_Witness ==
    /\ file[1].opened
    /\ mut[1] = 0
    /\ Len(emitted[1]) = 2
    /\ emitted[1][1].pos = 0
    /\ emitted[1][2].pos = 1
    /\ iter[1].count = 1
    /\ iter[1].pc = "loop"

C18_OpenAttachesAllOrNothing ==
    [][OpenStep(1)
       => \/ /\ ret'.err = OK
             /\ file'[1].opened
             /\ file'[1].f_pos = 0
             /\ file'[1].private_data.st = "live"
             /\ file'[1].private_data.info_list = Chunks(host[SessDir])
             /\ Flatten(file'[1].private_data.info_list) = host[SessDir]
          \/ /\ ret'.err \in {ENOMEM, EIO, ENOENT}
             /\ ~file'[1].opened
             /\ file'[1].private_data = NullDir]_vars

\* C18 witness: sf_dir_open of a directory with an entry failed in a chunk
\* read, after the handle was obtained, and left no sf_dir_info.
C18_Witness ==
    /\ ret.op = "sf_dir_open"
    /\ ret.err = EIO
    /\ calls = <<"vboxsf_create", "vboxsf_dirinfo", "vboxsf_close">>
    /\ host[SessDir] # <<>>
    /\ file[1] = ClosedFile

\* A refetch of this pass failed: a refetch was due and sf_getdent returned
\* a transport error or -ENOENT (a name that cannot be converted gives
\* -EINVAL, after a successful refetch).
RefetchError(f) ==
    IteratePass(f) /\ sf_i[SessDir].force_reread /\ iter'[f].getdent \in {EIO, ENOENT}

\* C19: force_reread is still set after every pass whose refetch failed, and
\* it is cleared only by a pass that refetched the complete listing: its
\* transport calls are the create, the chunk reads and the close, and the
\* session holds the host's listing.
C19_FlagClearedOnlyOnSuccess ==
    /\ [][RefetchError(1) => sf_i'[SessDir].force_reread]_vars
    /\ [][(sf_i[SessDir].force_reread /\ ~sf_i'[SessDir].force_reread)
           => /\ IteratePass(1)
              /\ iter'[1].getdent \notin {EIO, ENOENT}
              /\ calls' = <<"vboxsf_create">>
                            \o sf_dir_read_all(host[SessDir], FALSE).calls
                            \o <<"vboxsf_close">>
              /\ Flatten(file'[1].private_data.info_list) = host[SessDir]]_vars

\* C19 witness: a pass whose refetch failed in a chunk read has left
\* force_reread set.
C19_Witness ==
    /\ ret.op = "sf_dir_iterate"
    /\ iter[1].getdent = EIO
    /\ calls = <<"vboxsf_create", "vboxsf_dirinfo", "vboxsf_close">>
    /\ sf_i[SessDir].force_reread

\* The directories whose host listing an inode operation changed.
ChangedDirs == {d \in Dirs : host'[d] # host[d]}

\* C20: after a successful sf_create, sf_mkdir or sf_symlink force_restat is
\* set on the new inode and on the parent; after a successful sf_unlink or
\* sf_rmdir it is set on the parent; after a successful sf_rename it is set
\* on the old and on the new parent.
C20_MutationSetsForceRestat ==
    /\ [][(InodeOpStep({"sf_create", "sf_mkdir", "sf_symlink"}) /\ ret'.err = OK)
           => /\ ChangedDirs # {}
              /\ \A d \in ChangedDirs :
                    /\ sf_i'[d].force_restat
                    /\ \E n \in Names :
                          /\ child[d][n] = NoInode
                          /\ child'[d][n] # NoInode
                          /\ child'[d][n].force_restat]_vars
    /\ [][(InodeOpStep({"sf_unlink", "sf_rmdir"}) /\ ret'.err = OK)
           => /\ ChangedDirs # {}
              /\ \A d \in ChangedDirs : sf_i'[d].force_restat]_vars
    /\ [][(InodeOpStep({"sf_rename"}) /\ ret'.err = OK)
           => /\ ret'.old_parent \in ChangedDirs
              /\ ChangedDirs \subseteq {ret'.old_parent, ret'.new_parent}
              /\ sf_i'[ret'.old_parent].force_restat
              /\ sf_i'[ret'.new_parent].force_restat]_vars

\* C20 witness: a regular file was created and then renamed into another
\* directory; its inode and both directories have force_restat set.
C20_Witness ==
    /\ ret.op = "sf_rename"
    /\ ret.err = OK
    /\ ret.old_parent # ret.new_parent
    /\ sf_i[ret.old_parent].force_restat
    /\ sf_i[ret.new_parent].force_restat
    /\ \E n \in Names :
          /\ child[ret.new_parent][n] # NoInode
          /\ child[ret.new_parent][n].handle # SHFL_HANDLE_NIL
          /\ child[ret.new_parent][n].force_restat

\* ------------------------------------------------ cursors beyond 32 bits

\* 2^32 - 0xbeef, the first ctx->pos whose sanity does not fit 32 bits.
IdWrap == <<16657, 65535, 0, 0>>

\* Listings that have entries on both sides of IdWrap, and past 2^32.
Bases ==
    {loff(0), <<16655, 65535, 0, 0>>, <<16656, 65535, 0, 0>>, IdWrap,
     <<0, 0, 1, 0>>, <<16656, 65535, 1, 0>>}

\* The session directory's listing has base entries before the ones host
\* writes out; the file was not opened yet.
InitIno == InitShare /\ base \in Bases

NextIno ==
    \/ sf_dir_open(1)
    \/ sf_dir_release(1)
    \/ iterate_begin(1)
    \/ sf_dir_iterate(1)

SpecIno == InitIno /\ [][NextIno]_vars

\* The 64-bit value w has a bit set above bit 31.
Above32(w) == w[3] # 0 \/ w[4] # 0

\* C17: a pass that has a valid entry name at the cursor returns -EINVAL
\* when ctx->pos + 0xbeef does not fit 32 bits, with no dir_emit, the cursor
\* where it was and the struct file as it was (opened, same sf_dir_info);
\* when the value fits, dir_emit is given the entry with that value as its
\* inode number and, unless it refuses, the cursor advances.
C17_InoOverflowRejected ==
    [][(IteratePass(1) /\ iter'[1].getdent = OK)
        => LET pos == file[1].f_pos
               sanity == sanity_of(pos)
           IN IF Above32(sanity)
              THEN /\ ret'.err = EINVAL
                   /\ iter'[1].pc = "idle"
                   /\ emitted' = emitted
                   /\ file' = file
              ELSE IF iter[1].count < iter[1].budget
              THEN /\ Len(emitted'[1]) = Len(emitted[1]) + 1
                   /\ emitted'[1][Len(emitted'[1])].pos = pos
                   /\ emitted'[1][Len(emitted'[1])].ino = <<sanity[1], sanity[2]>>
                   /\ file'[1].f_pos = pos + 1
                   /\ ret'.err # EINVAL
              ELSE /\ ret'.err = OK
                   /\ emitted' = emitted
                   /\ file' = file]_vars

\* C17 witness: entries before IdWrap were emitted, then the call returned
\* -EINVAL at the first entry whose number does not fit; the file is open
\* with the cursor at that entry.
C17_Witness ==
    /\ ret.op = "sf_dir_iterate"
    /\ ret.err = EINVAL
    /\ iter[1].getdent = OK
    /\ emitted[1] # <<>>
    /\ file[1].opened
    /\ file[1].f_pos = emitted[1][Len(emitted[1])].pos + 1
    /\ ctx_pos(file[1].f_pos) = IdWrap

\* ------------------------------- sf_dir_iterate line by line, on one file

\* sf_getdent returned an error to the loop of sf_dir_iterate, which skips
\* the entry and goes round (232-237).
skip_entry(t) ==
    /\ file' = [file EXCEPT ![1].f_pos = @ + 1]
    /\ thr' = [thr EXCEPT ![t].pc = "check"]

\* iterate_dir calls sf_dir_iterate for task t with room for budget entries.
iterate_enter(t) ==
    /\ file[1].opened
    /\ thr[t].pc = "idle"
    /\ ~iterate_excluded(SessDir)
    /\ \E budget \in 1..MaxRoom :
          thr' = [thr EXCEPT ![t] = [pc |-> "check", budget |-> budget, count |-> 0,
                                     stamp |-> -1, rerr |-> OK]]
    /\ UNCHANGED <<host, inodeVars, file, iter, emitted, mut, ret, calls, nops, kmem, remote,
                   base, hwVars, dropped, lst>>

\* 134: if (sf_i->force_reread)
getdent_check(t) ==
    /\ thr[t].pc = "check"
    /\ thr' = [thr EXCEPT ![t].pc = IF sf_i[SessDir].force_reread THEN "create" ELSE "walk",
                          ![t].stamp = IF sf_i[SessDir].force_reread THEN mut[1] ELSE @]
    /\ ret' = [op |-> "sf_getdent", f |-> 1, err |-> "pending"]
    /\ calls' = <<>>
    /\ UNCHANGED <<host, inodeVars, file, iter, emitted, mut, nops, kmem, remote, base, hwVars, dropped, lst>>

\* 144-151: vboxsf_create and the two early returns.
getdent_create(t) ==
    /\ thr[t].pc = "create"
    /\ calls' = <<"vboxsf_create">>
    /\ UNCHANGED <<host, inodeVars, iter, emitted, mut, nops, kmem, base, hwVars, dropped, lst>>
    /\ \/ \* 144-146: vboxsf_create fails
          /\ file[1].f_pos < MaxPos
          /\ ret' = [op |-> "sf_getdent", f |-> 1, err |-> EIO]
          /\ skip_entry(t)
          /\ UNCHANGED remote
       \/ \* 148-151: the directory is gone: sf_dir_info_free(sf_d)
          /\ file[1].f_pos < MaxPos
          /\ ret' = [op |-> "sf_getdent", f |-> 1, err |-> ENOENT]
          /\ file' = [file EXCEPT ![1].f_pos = @ + 1, ![1].private_data.st = "freed"]
          /\ thr' = [thr EXCEPT ![t].pc = "check"]
          /\ UNCHANGED remote
       \/ \* a handle
          /\ ret' = [op |-> "sf_getdent", f |-> 1, err |-> "pending"]
          /\ remote' = remote + 1
          /\ thr' = [thr EXCEPT ![t].pc = "empty"]
          /\ UNCHANGED file

\* 153: sf_dir_info_empty(sf_d)
getdent_empty(t) ==
    /\ thr[t].pc = "empty"
    /\ file' = [file EXCEPT ![1].private_data.info_list = <<>>]
    /\ lst' = [lst EXCEPT !.emptied = TRUE,
                          !.old = file[1].private_data.info_list,
                          !.new = Chunks(host[SessDir])]
    /\ thr' = [thr EXCEPT ![t].pc = "read"]
    /\ ret' = [op |-> "sf_getdent", f |-> 1, err |-> "pending"]
    /\ calls' = <<>>
    /\ UNCHANGED <<host, inodeVars, iter, emitted, mut, nops, kmem, remote, base, hwVars, dropped>>

\* 154: sf_dir_read_all, one vboxsf_dirinfo call at a time.
getdent_read(t) ==
    LET l == file[1].private_data.info_list
        c == Chunks(host[SessDir])
    IN
    /\ thr[t].pc = "read"
    /\ ret' = [op |-> "sf_getdent", f |-> 1, err |-> "pending"]
    /\ calls' = <<"vboxsf_dirinfo">>
    /\ UNCHANGED <<host, inodeVars, iter, emitted, mut, nops, kmem, remote, base, hwVars, dropped, lst>>
    /\ \/ \* the call fails: what was read is dropped
          /\ file[1].f_pos < MaxPos
          /\ file' = [file EXCEPT ![1].private_data.info_list =
                         sf_dir_read_all(host[SessDir], TRUE).info_list]
          /\ thr' = [thr EXCEPT ![t].pc = "close",
                                ![t].rerr = sf_dir_read_all(host[SessDir], TRUE).err]
       \/ \* one more buffer
          /\ Len(l) < Len(c)
          /\ file' = [file EXCEPT ![1].private_data.info_list = Append(l, c[Len(l) + 1])]
          /\ UNCHANGED thr
       \/ \* no more entries
          /\ Len(l) >= Len(c)
          /\ thr' = [thr EXCEPT ![t].pc = "close", ![t].rerr = OK]
          /\ UNCHANGED file

\* 155-157: vboxsf_close; if (err) return err
getdent_close(t) ==
    /\ thr[t].pc = "close"
    /\ calls' = <<"vboxsf_close">>
    /\ remote' = remote - 1
    /\ ret' = [op |-> "sf_getdent", f |-> 1,
               err |-> IF thr[t].rerr = OK THEN "pending" ELSE thr[t].rerr]
    /\ IF thr[t].rerr = OK
       THEN thr' = [thr EXCEPT ![t].pc = "clear"] /\ UNCHANGED file
       ELSE skip_entry(t)
    /\ UNCHANGED <<host, inodeVars, iter, emitted, mut, nops, kmem, base, hwVars, dropped, lst>>

\* 159: sf_i->force_reread = 0
getdent_clear(t) ==
    /\ thr[t].pc = "clear"
    /\ sf_i' = [sf_i EXCEPT ![SessDir].force_reread = flag_after_refetch(@, thr[t].rerr)]
    /\ lst' = [lst EXCEPT !.done[thr[t].stamp] = IF @ < 2 THEN @ + 1 ELSE @,
                          !.by = t]
    /\ thr' = [thr EXCEPT ![t].pc = "walk"]
    /\ ret' = [op |-> "sf_getdent", f |-> 1, err |-> "pending"]
    /\ calls' = <<>>
    /\ UNCHANGED <<host, child, last_ino, file, iter, emitted, mut, nops, kmem, remote, base, hwVars, dropped>>

\* 162-189 and 225-255: the walk to the entry at the cursor, and what
\* sf_dir_iterate does with it.
getdent_walk(t) ==
    /\ thr[t].pc = "walk"
    /\ calls' = <<>>
    /\ UNCHANGED <<host, inodeVars, iter, mut, nops, kmem, remote, base, hwVars, dropped, lst>>
    /\ \E l \in ReadableLists(file[1].private_data) :
        LET pos == file[1].f_pos
            g == getdent_tail(l, pos)
            sanity == sanity_of(pos)
            fake_ino == narrow_ino(sanity)
            Return(e) ==
                /\ thr' = [thr EXCEPT ![t] = IdleThr]
                /\ ret' = [op |-> "sf_dir_iterate", f |-> 1, err |-> e]
        IN
        \/ \* 226-227: end reached
           /\ g.err = END_REACHED
           /\ Return(OK)
           /\ UNCHANGED <<file, emitted>>
        \/ \* 232-237: skip erroneous entry and proceed
           /\ g.err \notin {END_REACHED, OK}
           /\ ret' = [op |-> "sf_getdent", f |-> 1, err |-> g.err]
           /\ skip_entry(t)
           /\ UNCHANGED emitted
        \/ \* 240-255: a valid entry name
           /\ g.err = OK
           /\ IF ino_overflows(sanity, fake_ino)
              THEN Return(EINVAL) /\ UNCHANGED <<file, emitted>>
              ELSE IF thr[t].count >= thr[t].budget
              THEN /\ Return(OK)
                   /\ file' = [file EXCEPT ![1].f_pos = pos_after(pos, FALSE)]
                   /\ UNCHANGED emitted
              ELSE /\ ret' = [op |-> "sf_dir_iterate", f |-> 1, err |-> "pending"]
                   /\ emitted' = [emitted EXCEPT ![1] = Append(@,
                         [pos |-> pos, name |-> g.d_name, type |-> g.d_type,
                          ino |-> fake_ino])]
                   /\ thr' = [thr EXCEPT ![t].pc = "check", ![t].count = @ + 1]
                   /\ file' = [file EXCEPT ![1].f_pos = pos_after(pos, TRUE)]

\* The session directory as in Init; the run may remove MaxOps entries.
InitConc == InitListing /\ nops = MaxOps /\ base = loff(0)

\* One struct file of the session directory, enumerated by the tasks that
\* share it, while entries are removed.
NextConc ==
    \/ sf_dir_open(1)
    \/ \E t \in Threads : iterate_enter(t)
    \/ \E t \in Threads : getdent_check(t)
    \/ \E t \in Threads : getdent_create(t)
    \/ \E t \in Threads : getdent_empty(t)
    \/ \E t \in Threads : getdent_read(t)
    \/ \E t \in Threads : getdent_close(t)
    \/ \E t \in Threads : getdent_clear(t)
    \/ \E t \in Threads : getdent_walk(t)
    \/ \E n \in Names : sf_unlink(SessDir, n)
    \/ \E n \in Names : sf_rmdir(SessDir, n)

SpecConc == InitConc /\ [][NextConc]_vars

\* A task is between sf_dir_info_empty and the end of its refetch.
Rebuilding(t) == thr[t].pc \in {"read", "close", "clear"}

\* A task is in the refetch of sf_getdent (lines 135-159).
Refetching(t) == thr[t].pc \in {"create", "empty", "read", "close", "clear"}

\* C12: a task that walks the list of struct file 1 finds a list no refetch
\* ever emptied, or the whole list the last refetch dropped, or the whole
\* list that refetch's handle lists; and no task walks the list while
\* another one is between emptying and rebuilding it.
C12_ReaderSeesWholeListing ==
    \A t \in Threads :
       (thr[t].pc = "walk" /\ file[1].private_data.st = "live")
          => /\ \/ ~lst.emptied
                \/ file[1].private_data.info_list \in {lst.old, lst.new}
             /\ \A u \in Threads \ {t} : ~Rebuilding(u)

\* C12 witness: entries were taken from the list; now one task has emptied
\* the list, which held entries, and reads it again, and the other task is
\* kept out.
C12_Witness ==
    \E t \in Threads, u \in Threads :
       /\ thr[t].pc = "read"
       /\ lst.old # <<>>
       /\ lst.new # <<>>
       /\ file[1].private_data.info_list = <<>>
       /\ thr[u].pc = "idle"
       /\ emitted[1] # <<>>

\* C13: a successful sf_unlink or sf_rmdir leaves force_reread set, and the
\* flag is cleared only at line 159 of a refetch that read the flag after
\* the last removal (no removal since it began), whose sf_dir_read_all
\* succeeded and which leaves the host's listing in the list.
C13_FlagSetNotLost ==
    /\ [][(InodeOpStep({"sf_unlink", "sf_rmdir"}) /\ ret'.err = OK)
           => sf_i'[SessDir].force_reread]_vars
    /\ [][(sf_i[SessDir].force_reread /\ ~sf_i'[SessDir].force_reread)
           => \E t \in Threads :
                 /\ thr[t].pc = "clear"
                 /\ thr'[t].pc = "walk"
                 /\ thr[t].rerr = OK
                 /\ thr[t].stamp = mut[1]
                 /\ file[1].private_data.info_list = Chunks(host[SessDir])]_vars

\* C13 witness: two removals, each followed by a refetch that completed and
\* cleared the flag.
C13_Witness ==
    /\ mut[1] = 2
    /\ lst.done[1] = 1
    /\ lst.done[2] = 1
    /\ ~sf_i[SessDir].force_reread

\* C14: at most one task is in the refetch of the list at a time; for one
\* removal the list is refetched at most once; and once it has been, the
\* flag is found cleared, so sf_getdent goes to the walk.
C14_RefetchesSerialized ==
    /\ Cardinality({t \in Threads : Refetching(t)}) <= 1
    /\ \A s \in DOMAIN lst.done : lst.done[s] <= 1
    /\ lst.done[mut[1]] >= 1 => ~sf_i[SessDir].force_reread
    /\ \A t \in Threads :
          (thr[t].pc = "walk" /\ thr[t].stamp = -1) => ~sf_i[SessDir].force_reread

\* C14 witness: after a removal one task refetched the list; the other
\* task's call found the flag cleared and is at the walk without a refetch.
C14_Witness ==
    \E u \in Threads :
       /\ thr[u].pc = "walk"
       /\ thr[u].stamp = -1
       /\ mut[1] >= 1
       /\ lst.done[mut[1]] = 1
       /\ lst.by \in Threads \ {u}

\* The dentries that have an inode.
Positive == {dn \in Dirs \X Names : child[dn[1]][dn[2]] # NoInode}

\* The inode numbers in use: the roots' and those of the positive dentries.
LiveInos == {ROOT_INO} \cup {child[dn[1]][dn[2]].ino : dn \in Positive}

\* C21: the inodes of two different dentries never have the same number,
\* none has the root's number 0, and the number given to a new inode by
\* sf_lookup, sf_create, sf_mkdir or sf_symlink is not the number of any
\* inode in use before the call.
C21_InodeNumbersUnique ==
    /\ [](\A a \in Positive, b \in Positive :
             child[a[1]][a[2]].ino = child[b[1]][b[2]].ino => a = b)
    /\ [](\A a \in Positive : child[a[1]][a[2]].ino # ROOT_INO)
    /\ [][InodeOpStep({"sf_lookup", "sf_create", "sf_mkdir", "sf_symlink"})
           => \A d \in Dirs, n \in Names :
                 (child[d][n] = NoInode /\ child'[d][n] # NoInode)
                    => child'[d][n].ino \notin LiveInos]_vars

\* C21 witness: a looked-up inode and a created one are in use together.
C21_Witness ==
    /\ ret.op = "sf_create"
    /\ ret.err = OK
    /\ \E a \in Positive, b \in Positive :
          /\ a # b
          /\ child[a[1]][a[2]].handle = SHFL_HANDLE_NIL
          /\ child[b[1]][b[2]].handle # SHFL_HANDLE_NIL
          /\ child[a[1]][a[2]].ino # child[b[1]][b[2]].ino

\* How often the path-buffer call k was made by the last inode operation.
Times(k) == Cardinality({i \in DOMAIN kmem : kmem[i] = k})

\* C22: when vboxsf_rename succeeded the renamed inode owns the path built
\* from the new parent and the new name, the buffer it owned before is
\* released exactly once and the new one is not released; when
\* vboxsf_rename failed no inode's path changes and the buffer built for
\* the call is released exactly once.
C22_RenamePathOwnership ==
    [][(InodeOpStep({"sf_rename"}) /\ calls' = <<"vboxsf_rename">>)
        => LET op == ret'.old_parent
               np == ret'.new_parent
           IN IF ret'.err = OK
              THEN /\ \E on \in Names, nn \in Names :
                         /\ child[op][on] # NoInode
                         /\ child'[np][nn] =
                               [child[op][on] EXCEPT
                                  !.path = sf_path_from_dentry(sf_i[np].path, nn)]
                         /\ child'[np][nn].path # child[op][on].path
                   /\ Times(KFREE_INODE_PATH)' = 1
                   /\ Times(KFREE_PATH)' = 0
                   /\ Times(PATH_BUILT)' = 1
              ELSE /\ child' = child
                   /\ Times(KFREE_PATH)' = 1
                   /\ Times(KFREE_INODE_PATH)' = 0
                   /\ Times(PATH_BUILT)' = 1]_vars

\* C22 witness: an inode was renamed into another directory and owns the
\* path under that directory.
C22_Witness ==
    /\ ret.op = "sf_rename"
    /\ ret.err = OK
    /\ ret.old_parent # ret.new_parent
    /\ kmem = <<PATH_BUILT, KFREE_INODE_PATH>>
    /\ \E nn \in Names :
          /\ child[ret.new_parent][nn] # NoInode
          /\ child[ret.new_parent][nn].path = Append(sf_i[ret.new_parent].path, nn)
          /\ \A on \in Names : child[ret.old_parent][on] = NoInode

\* ------------------------------------------------ the walk over the buffers

RECURSIVE Splits(_, _)
\* The ways the host may deliver a listing in at most k buffers: a
\* vboxsf_dirinfo call fills a buffer with as many records as fit, none
\* included.
Splits(list, k) ==
    IF k = 0 THEN IF list = <<>> THEN {<<>>} ELSE {}
    ELSE (IF list = <<>> THEN {<<>>} ELSE {})
         \cup UNION {{<<SubSeq(list, 1, j)>> \o r :
                        r \in Splits(SubSeq(list, j + 1, Len(list)), k - 1)} :
                     j \in 0..Len(list)}

\* 264: .llseek = generic_file_llseek; the cursor is set to any offset. The
\* record of the entries delivered starts again at the new cursor.
sf_dir_llseek(f, n) ==
    /\ file[f].opened
    /\ iter[f].pc = "idle"
    /\ file' = [file EXCEPT ![f].f_pos = n]
    /\ emitted' = [emitted EXCEPT ![f] = <<>>]
    /\ ret' = [op |-> "generic_file_llseek", f |-> f, err |-> OK]
    /\ calls' = <<>>
    /\ UNCHANGED <<host, inodeVars, iter, mut, nops, kmem, remote, auxVars>>

\* Struct file 1 is open on the session directory and holds its listing in
\* buffers of any fill.
InitWalk ==
    /\ \E S \in SUBSET Names :
          host = [d \in Dirs |-> IF d = SessDir THEN Listing(Ascending(S)) ELSE <<>>]
    /\ child = [d \in Dirs |-> [n \in Names |->
                  IF HasName(host[d], n)
                  THEN looked_up(d, host[d], IndexOf(host[d], n)) ELSE NoInode]]
    /\ last_ino = 1 + Len(host[SessDir])
    /\ sf_i = [d \in Dirs |-> [sf_alloc_inode EXCEPT !.path = DirPath(d)]]
    /\ InitHw
    /\ dropped = {}
    /\ \E l \in Splits(host[SessDir], MaxBufs) :
          file = [f \in Files |->
                    IF f = 1
                    THEN [opened |-> TRUE,
                          private_data |-> [st |-> "live", info_list |-> l],
                          f_pos |-> 0]
                    ELSE ClosedFile]
    /\ iter = [f \in Files |-> IdleIter]
    /\ emitted = [f \in Files |-> <<>>]
    /\ mut = [f \in Files |-> 0]
    /\ ret = [op |-> "sf_dir_open", f |-> 1, err |-> OK]
    /\ calls = <<>>
    /\ kmem = <<>>
    /\ remote = 0
    /\ nops = 0
    /\ base = loff(0)
    /\ thr = [t \in Threads |-> IdleThr]
    /\ lst = [emptied |-> FALSE, old |-> <<>>, new |-> <<>>,
              done |-> [s \in 0..MaxOps |-> 0], by |-> 0]

NextWalk ==
    \/ \E n \in 0..MaxPos : sf_dir_llseek(1, n)
    \/ iterate_begin(1)
    \/ sf_dir_iterate(1)

SpecWalk == InitWalk /\ [][NextWalk]_vars

\* The records of all buffers of struct file 1, in order.
AllRecords == Flatten(file[1].private_data.info_list)

\* C27: for buffers holding e1..em records, zero-record buffers and records
\* of different name sizes included, the walk to ordinal n ends at record n
\* of the concatenation when n is below the sum of the counts and past the
\* end otherwise; a pass of the listing loop at cursor n handles that record.
C27_WalkFindsRecordOfConcatenation ==
    /\ \A n \in 0..MaxPos :
          entry_at(file[1].private_data.info_list, n) =
             IF n < Len(AllRecords) THEN AllRecords[n + 1] ELSE NoEntry
    /\ \A n \in 0..MaxPos :
          getdent_tail(file[1].private_data.info_list, n).err = END_REACHED
             <=> n >= Len(AllRecords)

\* A listing of three names of different sizes in buffers with an empty one
\* among them, the cursor past the first record of a buffer.
C27_Witness ==
    /\ Len(AllRecords) = MaxNames
    /\ \E i \in DOMAIN file[1].private_data.info_list :
          /\ file[1].private_data.info_list[i] = <<>>
          /\ i < Len(file[1].private_data.info_list)
    /\ \E i \in DOMAIN file[1].private_data.info_list :
          Len(file[1].private_data.info_list[i]) >= 2
    /\ file[1].f_pos = MaxNames - 1
    /\ ret.op = "sf_dir_iterate"
    /\ emitted[1] # <<>>

\* ------------------------------------------- error paths of the inode ops

\* The vboxsf_remove calls among the transport calls cs.
Removes(cs) == Cardinality({i \in DOMAIN cs : cs[i] = "vboxsf_remove"})

\* No dentry got an inode in this step.
NoInodeCreated ==
    /\ last_ino' = last_ino
    /\ \A d \in Dirs, n \in Names :
          child'[d][n] # NoInode => child'[d][n] = child[d][n]

\* What C28 says of a step of sf_unlink or sf_rmdir apart from the number of
\* vboxsf_remove calls.
UnlinkOutcome ==
    /\ IF ret'.err = OK
       THEN /\ ChangedDirs # {}
            /\ \A d \in ChangedDirs : sf_i'[d].force_restat /\ sf_i'[d].force_reread
            /\ \A d \in Dirs \ ChangedDirs : sf_i'[d] = sf_i[d]
       ELSE sf_i' = sf_i /\ host' = host
    /\ Times(KFREE_PATH)' = Times(PATH_BUILT)'
    /\ Times(KFREE_INODE_PATH)' = 0
    /\ NoInodeCreated

\* C28 as stated: every sf_unlink and sf_rmdir issues exactly one
\* vboxsf_remove; on success both flags are set on the parent, on failure
\* no flag changes; the path buffer is released and no inode is created.
C28_ExactlyOneRemove ==
    [][InodeOpStep({"sf_unlink", "sf_rmdir"})
        => Removes(calls') = 1 /\ Len(calls') = 1 /\ UnlinkOutcome]_vars

\* C28: sf_unlink and sf_rmdir issue exactly one vboxsf_remove once the
\* path buffer is built and none, returning the error, when it cannot be
\* built; on success both force_restat and force_reread are set on the
\* parent, on failure the error is returned and no flag changes; a buffer
\* that was built is released exactly once and no inode is created.
C28_UnlinkRemovesOnceAndReleasesPath ==
    [][InodeOpStep({"sf_unlink", "sf_rmdir"})
        => /\ Len(calls') = Removes(calls')
           /\ Removes(calls') = Times(PATH_BUILT)'
           /\ Times(PATH_BUILT)' \in {0, 1}
           /\ Times(PATH_BUILT)' = 0 => ret'.err = ENOMEM
           /\ UnlinkOutcome]_vars

\* C28 witness: an sf_rmdir removed a directory: one vboxsf_remove, the
\* buffer released, both flags on a parent that lost the entry.
C28_Witness ==
    /\ ret.op = "sf_rmdir"
    /\ ret.err = OK
    /\ calls = <<"vboxsf_remove">>
    /\ kmem = <<PATH_BUILT, KFREE_PATH>>
    /\ \E d \in Dirs :
          /\ sf_i[d].force_restat
          /\ sf_i[d].force_reread
          /\ ~HasName(host[d], 2)

\* C29: an sf_create or sf_mkdir whose vboxsf_create fails, or returns a
\* result other than SHFL_FILE_CREATED, returns an error, gives no dentry
\* an inode, releases the path buffer it built exactly once, and leaves
\* force_restat and force_reread of every directory as they were.
C29_FailedCreateLeavesNothing ==
    [][(/\ InodeOpStep({"sf_create", "sf_mkdir"})
        /\ calls' = <<"vboxsf_create">>
        /\ host' = host)
        => /\ ret'.err \notin {OK}
           /\ NoInodeCreated
           /\ child' = child
           /\ sf_i' = sf_i
           /\ Times(PATH_BUILT)' = 1
           /\ Times(KFREE_PATH)' = 1]_vars

\* C29 witness: an sf_mkdir of a name the host has already was refused with
\* -EPERM after its vboxsf_create call, the buffer released.
C29_Witness ==
    /\ ret.op = "sf_mkdir"
    /\ ret.err = EPERM
    /\ calls = <<"vboxsf_create">>
    /\ kmem = <<PATH_BUILT, KFREE_PATH>>
    /\ \A d \in Dirs : ~sf_i[d].force_restat /\ ~sf_i[d].force_reread
    /\ \A d \in Dirs, n \in Names : child[d][n] = NoInode

\* The dentries that got an inode in this step.
Instantiated ==
    {dn \in Dirs \X Names : child[dn[1]][dn[2]] = NoInode /\ child'[dn[1]][dn[2]] # NoInode}

\* C30: after a successful sf_create the new inode's handle is the handle
\* vboxsf_create returned and no vboxsf_close was called on it, so it stays
\* open on the host; after a successful sf_mkdir the handle vboxsf_create
\* returned was closed exactly once and the new inode's handle is
\* SHFL_HANDLE_NIL.
C30_CreateKeepsHandleMkdirClosesIt ==
    [][(InodeOpStep({"sf_create", "sf_mkdir"}) /\ ret'.err = OK)
        => /\ Cardinality(Instantiated) = 1
           /\ \A dn \in Instantiated :
                 LET new == child'[dn[1]][dn[2]]
                     params_handle == sf_path_from_dentry(sf_i[dn[1]].path, dn[2])
                 IN IF ret'.op = "sf_create"
                    THEN /\ new.handle = params_handle
                         /\ new.handle # SHFL_HANDLE_NIL
                         /\ Closes(calls') = 0
                         /\ remote' = remote + 1
                    ELSE /\ new.handle = SHFL_HANDLE_NIL
                         /\ Closes(calls') = 1
                         /\ remote' = remote]_vars

\* C30 witness: after an sf_mkdir that closed its handle, an sf_create left
\* an inode that holds its handle, open on the host.
C30_Witness ==
    /\ ret.op = "sf_create"
    /\ ret.err = OK
    /\ calls = <<"vboxsf_create">>
    /\ remote = 1
    /\ \E dn \in Positive, dm \in Positive :
          /\ child[dn[1]][dn[2]].handle = child[dn[1]][dn[2]].path
          /\ child[dm[1]][dm[2]].handle = SHFL_HANDLE_NIL
          /\ child[dm[1]][dm[2]].i_mode = S_IFDIR
          /\ child[dm[1]][dm[2]].force_restat

\* ------------------------------------------------------------ typec bus.c

\* What a call on the bus did: typec_set_mode(port, arg) returning ret, the
\* notifier chain called with arg, an operation of the other side's driver.
SetMode(state, r) == [ev |-> "typec_set_mode", arg |-> state, ret |-> r]
Notified(state) == [ev |-> "blocking_notifier_call_chain", arg |-> state, ret |-> OK]
OpEnter == [ev |-> "ops->enter", arg |-> 0, ret |-> OK]
OpExit == [ev |-> "ops->exit", arg |-> 0, ret |-> OK]
OpNotify(conf, r) == [ev |-> "ops->notify", arg |-> conf, ret |-> r]

\* typec_set_mode: the mux takes the state, or fails and stays as it is.
typec_set_mode(pins, state, r) == IF r = OK THEN state ELSE pins

RECURSIVE PinsAfter(_, _)
\* The state of the pins after the calls of log.
PinsAfter(pins, log) ==
    IF log = <<>> THEN pins
    ELSE PinsAfter(IF Head(log).ev = "typec_set_mode"
                   THEN typec_set_mode(pins, Head(log).arg, Head(log).ret)
                   ELSE pins,
                   Tail(log))

\* 68-74: active_match on the device of the partner's alternate mode a.
active_match(a) == typec.active[a]

\* 103: device_find_child(adev->dev.parent, NULL, active_match)
device_find_child == \E a \in Alts : active_match(a)

\* typec_altmode_enter with the Enter Mode command ahead of the safe state.
enter_calls_enter_first(r, has_enter) ==
    (IF has_enter THEN <<OpEnter>> ELSE <<>>)
    \o (IF r # OK THEN <<SetMode(TYPEC_STATE_SAFE, r)>>
        ELSE <<SetMode(TYPEC_STATE_SAFE, OK), Notified(TYPEC_STATE_SAFE)>>)

\* 108-120: what typec_altmode_enter does for a partner's alternate mode
\* when typec_set_mode returns r.
enter_calls(r, has_enter) ==
    IF r # OK THEN <<SetMode(TYPEC_STATE_SAFE, r)>>
    ELSE <<SetMode(TYPEC_STATE_SAFE, OK), Notified(TYPEC_STATE_SAFE)>>
         \o (IF has_enter THEN <<OpEnter>> ELSE <<>>)

\* 149-166: what typec_altmode_exit does for a partner's alternate mode
\* when the two typec_set_mode calls return r1 and r2.
exit_calls(r1, r2, has_exit) ==
    IF r1 # OK THEN <<SetMode(TYPEC_STATE_SAFE, r1)>>
    ELSE <<SetMode(TYPEC_STATE_SAFE, OK), Notified(TYPEC_STATE_SAFE)>>
         \o (IF has_exit THEN <<OpExit>> ELSE <<>>)
         \o (IF r2 # OK THEN <<SetMode(TYPEC_STATE_USB, r2)>>
             ELSE <<SetMode(TYPEC_STATE_USB, OK), Notified(TYPEC_STATE_USB)>>)

\* typec_altmode_exit without lines 162-163.
exit_ret_usb_unchecked(r1, r2) == r1

\* 151-152, 162-163, 167: the value typec_altmode_exit returns.
exit_ret(r1, r2) == IF r1 # OK THEN r1 ELSE r2

\* The values typec_set_mode returns.
SetModeRets == {OK, EIO}

Called(fn, dev, a, r, log) ==
    [typec EXCEPT !.op = [fn |-> fn, dev |-> dev, alt |-> a], !.ret = r, !.log = log,
                  !.pins = PinsAfter(@, log)]

\* typec_altmode_enter on the device dev ("port" or "partner") of mode a.
typec_altmode_enter(dev, a) ==
    /\ UNCHANGED <<fsVars, cht>>
    /\ IF dev = "port"
       THEN \* 92-99: the port driver reports that the mode was entered
            typec' = [Called("typec_altmode_enter", dev, a, OK,
                             IF typec.ops.partner THEN <<OpEnter>> ELSE <<>>)
                        EXCEPT !.port_active[a] = TRUE]
       ELSE IF device_find_child
       THEN \* 103-107
            typec' = Called("typec_altmode_enter", dev, a, EBUSY, <<>>)
       ELSE \* 109-121
            \E r \in SetModeRets :
               typec' = [Called("typec_altmode_enter", dev, a, r,
                                enter_calls(r, typec.ops.port))
                           EXCEPT !.sent[a] = @ \/ (r = OK /\ typec.ops.port)]

\* typec_altmode_exit on the device dev of mode a.
typec_altmode_exit(dev, a) ==
    /\ UNCHANGED <<fsVars, cht>>
    /\ IF dev = "port"
       THEN \* 140-147: the port driver reports that the mode was exited
            typec' = [Called("typec_altmode_exit", dev, a, OK,
                             IF typec.ops.partner THEN <<OpExit>> ELSE <<>>)
                        EXCEPT !.port_active[a] = FALSE]
       ELSE \* 149-168
            \E r1 \in SetModeRets, r2 \in SetModeRets :
               typec' = [Called("typec_altmode_exit", dev, a, exit_ret(r1, r2),
                                exit_calls(r1, r2, typec.ops.port))
                           EXCEPT !.sent[a] = @ /\ ~(r1 = OK /\ typec.ops.port)]

\* typec_altmode_notify on the partner's device of mode a.
typec_altmode_notify(a, conf) ==
    /\ UNCHANGED <<fsVars, cht>>
    /\ IF conf < TYPEC_STATE_MODAL
       THEN \* 41-42
            typec' = Called("typec_altmode_notify", "partner", a, EINVAL, <<>>)
       ELSE \E r \in SetModeRets, n \in SetModeRets :
               typec' =
                  IF r # OK
                  THEN \* 53-55
                       Called("typec_altmode_notify", "partner", a, r, <<SetMode(conf, r)>>)
                  ELSE IF typec.ops.port
                  THEN \* 57-62
                       Called("typec_altmode_notify", "partner", a, n,
                              <<SetMode(conf, OK), Notified(conf), OpNotify(conf, n)>>)
                  ELSE \* 57-59, 64
                       Called("typec_altmode_notify", "partner", a, OK,
                              <<SetMode(conf, OK), Notified(conf)>>)

\* typec_altmode_update_active on the partner's device of mode a: the port
\* driver got the partner's answer to Enter Mode, or the mode was left.
typec_altmode_update_active(a, active) ==
    /\ UNCHANGED <<fsVars, cht>>
    /\ IF active THEN typec.sent[a] ELSE typec.active[a]
    /\ typec' = [typec EXCEPT !.active[a] = active, !.sent[a] = FALSE,
                              !.op = [fn |-> "typec_altmode_update_active",
                                      dev |-> "partner", alt |-> a],
                              !.ret = OK, !.log = <<>>]

\* Nothing is mounted; a port and a partner with or without registered
\* operations.
InitTypec ==
    /\ host = [d \in Dirs |-> <<>>]
    /\ child = [d \in Dirs |-> [n \in Names |-> NoInode]]
    /\ last_ino = 1
    /\ nops = 0
    /\ base = loff(0)
    /\ InitMount
    /\ cht = ChtStart({}, TRUE)
    /\ \E po \in BOOLEAN, pa \in BOOLEAN : typec = TypecStart(po, pa)

NextTypec ==
    \/ \E dev \in {"port", "partner"}, a \in Alts : typec_altmode_enter(dev, a)
    \/ \E dev \in {"port", "partner"}, a \in Alts : typec_altmode_exit(dev, a)
    \/ \E a \in Alts, conf \in {TYPEC_STATE_USB, TYPEC_STATE_MODAL} :
          typec_altmode_notify(a, conf)
    \/ \E a \in Alts, active \in BOOLEAN : typec_altmode_update_active(a, active)

SpecTypec == InitTypec /\ [][NextTypec]_vars

\* A call of fn on the device dev of some mode returns in this step.
BusCall(fn, dev) == typec' # typec /\ typec'.op.fn = fn /\ typec'.op.dev = dev

\* The positions of log at which the event e stands.
At(log, e) == {i \in DOMAIN log : log[i] = e}

\* The partner's alternate modes that are entered: typec_altmode.h 20,
\* "@active: Tells has the mode been entered or not".
EnteredModes == {a \in Alts : typec.active[a]}

\* C23: typec_altmode_enter on a partner's alternate mode returns -EBUSY,
\* leaves the pins as they are and does not invoke the enter operation
\* whenever an alternate mode of that partner is active; at most one mode
\* of a partner is entered at a time.
C23_BusyRefusedSoOneModeAtATime ==
    /\ [][(BusCall("typec_altmode_enter", "partner") /\ device_find_child)
           => /\ typec'.ret = EBUSY
              /\ typec'.pins = typec.pins
              /\ typec'.log = <<>>]_vars
    /\ [](Cardinality(EnteredModes) <= 1)

\* C24: typec_altmode_enter on a partner's alternate mode invokes the enter
\* operation only after it set the pins to TYPEC_STATE_SAFE and called the
\* notifier chain with that state, the pins then being in that state; the
\* call that is not refused as busy begins with setting the safe state, and
\* when that fails its error is returned and the enter operation is not
\* invoked.
C24_SafeStateBeforeEnter ==
    [][BusCall("typec_altmode_enter", "partner")
        => LET log == typec'.log IN
           /\ device_find_child => log = <<>>
           /\ ~device_find_child => log # <<>>
           /\ log # <<>> => log[1].ev = "typec_set_mode" /\ log[1].arg = TYPEC_STATE_SAFE
           /\ \A i \in At(log, OpEnter) :
                 /\ \E j \in At(log, SetMode(TYPEC_STATE_SAFE, OK)),
                       k \in At(log, Notified(TYPEC_STATE_SAFE)) : j < k /\ k < i
                 /\ PinsAfter(typec.pins, SubSeq(log, 1, i - 1)) = TYPEC_STATE_SAFE
           /\ (log # <<>> /\ typec.ops.port /\ log[1].ret = OK) => At(log, OpEnter) # {}
           /\ (log # <<>> /\ log[1].ret # OK)
                 => /\ typec'.ret = log[1].ret
                    /\ At(log, OpEnter) = {}
                    /\ typec'.sent = typec.sent
           /\ (log # <<>> /\ log[1].ret = OK) => typec'.ret = OK]_vars

\* C24 witness: an enter of mode 2 moved the pins to the safe state, called
\* the notifier chain and then invoked the enter operation.
C24_Witness ==
    /\ typec.op = [fn |-> "typec_altmode_enter", dev |-> "partner", alt |-> 2]
    /\ typec.ret = OK
    /\ typec.log = <<SetMode(TYPEC_STATE_SAFE, OK), Notified(TYPEC_STATE_SAFE), OpEnter>>
    /\ typec.pins = TYPEC_STATE_SAFE
    /\ typec.sent[2]
    /\ typec.port_active[1]

\* The typec_set_mode calls of log, in order.
SetModes(log) == SelectSeq(log, LAMBDA e : e.ev = "typec_set_mode")

\* C25: typec_altmode_exit on a partner's alternate mode sets the pins to
\* TYPEC_STATE_SAFE, then invokes the exit operation, then sets the pins
\* to TYPEC_STATE_USB; it returns 0 only if the last typec_set_mode it
\* called was for TYPEC_STATE_USB and succeeded; when setting the safe
\* state fails the exit operation is not invoked.
C25_ExitSafeThenExitThenUsb ==
    [][BusCall("typec_altmode_exit", "partner")
        => LET log == typec'.log
               sets == SetModes(log)
           IN
           /\ log # <<>>
           /\ log[1].ev = "typec_set_mode"
           /\ log[1].arg = TYPEC_STATE_SAFE
           /\ \A i \in At(log, OpExit) :
                 /\ \E j \in At(log, SetMode(TYPEC_STATE_SAFE, OK)) : j < i
                 /\ \E k \in DOMAIN log :
                       /\ i < k
                       /\ log[k].ev = "typec_set_mode"
                       /\ log[k].arg = TYPEC_STATE_USB
                 /\ \A k \in DOMAIN log :
                       (log[k].ev = "typec_set_mode" /\ k < i)
                          => log[k].arg = TYPEC_STATE_SAFE
           /\ typec.ops.port /\ log[1].ret = OK => At(log, OpExit) # {}
           /\ log[1].ret # OK => At(log, OpExit) = {} /\ typec'.ret = log[1].ret
           /\ typec'.ret = OK
                 => /\ sets[Len(sets)] = SetMode(TYPEC_STATE_USB, OK)
                    /\ typec'.pins = TYPEC_STATE_USB
           /\ Len(sets) <= 2]_vars

\* C25 witness: an exit of the active mode 1 went through the safe state
\* and the exit operation back to USB and returned 0.
C25_Witness ==
    /\ typec.op = [fn |-> "typec_altmode_exit", dev |-> "partner", alt |-> 1]
    /\ typec.ret = OK
    /\ typec.log = <<SetMode(TYPEC_STATE_SAFE, OK), Notified(TYPEC_STATE_SAFE), OpExit,
                     SetMode(TYPEC_STATE_USB, OK), Notified(TYPEC_STATE_USB)>>
    /\ typec.pins = TYPEC_STATE_USB
    /\ typec.active[1]

\* ------------------------------------------ intel-cht-usb-role-switch.c

\* The statuses acpi_acquire_global_lock(ACPI_WAIT_FOREVER, &glk) returns:
\* AE_NOT_CONFIGURED on a platform without a global lock; otherwise AE_OK
\* once the lock is free, or a failure.
acpi_acquire_global_lock(t) ==
    IF ~cht.configured THEN {AE_NOT_CONFIGURED}
    ELSE {AE_ERROR} \cup (IF cht.glock = "none" THEN {AE_OK} ELSE {})

\* acpi_release_global_lock(glk): the lock is free again when glk is the
\* handle of the holder; glk is still -1U when nothing was acquired.
acpi_release_global_lock(t) == IF cht.glock = t THEN "none" ELSE cht.glock

\* 67, 122: ACPI_FAILURE(status) && status != AE_NOT_CONFIGURED
lock_refused(status) == status \notin {AE_OK, AE_NOT_CONFIGURED}

\* 79-82: the idpin value as requested
set_role_val(val, role) ==
    IF role = USB_ROLE_HOST THEN val \ SW_IDPIN ELSE val \cup SW_IDPIN

\* 129-134
set_vbus_valid_val(val, valid) ==
    (IF valid THEN val \cup SW_VBUS_VALID ELSE val \ SW_VBUS_VALID) \cup SW_IDPIN_EN

Task(t) == cht.task[t]

\* usb_role_switch_set_role calls intel_cht_usb_set_role.
intel_cht_usb_set_role(role) ==
    /\ Task("role").pc = "idle"
    /\ cht' = [cht EXCEPT !.task["role"].pc = "acquire", !.task["role"].role = role]
    /\ UNCHANGED <<fsVars, typec>>

\* intel_cht_usb_vbus_work calls intel_cht_usb_set_vbus_valid.
intel_cht_usb_set_vbus_valid(valid) ==
    /\ Task("vbus").pc = "idle"
    /\ cht' = [cht EXCEPT !.task["vbus"].pc = "acquire", !.task["vbus"].valid = valid]
    /\ UNCHANGED <<fsVars, typec>>

\* 66-70, 121-125
cht_acquire(t) ==
    /\ Task(t).pc = "acquire"
    /\ \E status \in acpi_acquire_global_lock(t) :
          cht' = IF lock_refused(status)
                 THEN [cht EXCEPT !.task[t].pc = "done", !.task[t].ret = EIO]
                 ELSE [cht EXCEPT !.task[t].pc = "readl",
                                  !.task[t].acquired = (status = AE_OK),
                                  !.glock = IF status = AE_OK THEN t ELSE @]
    /\ UNCHANGED <<fsVars, typec>>

\* 78, 127: val = readl(data->base + DUAL_ROLE_CFG0)
cht_readl(t) ==
    /\ Task(t).pc = "readl"
    /\ cht' = [cht EXCEPT !.task[t].pc = "writel", !.task[t].val = cht.cfg0]
    /\ UNCHANGED <<fsVars, typec>>

\* 79-83, 128-135: writel(val, data->base + DUAL_ROLE_CFG0)
cht_writel(t) ==
    /\ Task(t).pc = "writel"
    /\ cht' = [cht EXCEPT !.task[t].pc = "release",
                          !.cfg0 = IF t = "role"
                                   THEN set_role_val(Task(t).val, Task(t).role)
                                   ELSE set_vbus_valid_val(Task(t).val, Task(t).valid)]
    /\ UNCHANGED <<fsVars, typec>>

\* 85-101, 136-137: the lock is released; intel_cht_usb_set_role then polls
\* DUAL_ROLE_CFG1 until the controller has switched or the time is up.
cht_release(t) ==
    /\ Task(t).pc = "release"
    /\ \E r \in IF t = "role" THEN {OK, ETIMEDOUT} ELSE {OK} :
          cht' = [cht EXCEPT !.task[t].pc = "done", !.task[t].ret = r,
                             !.glock = acpi_release_global_lock(t)]
    /\ UNCHANGED <<fsVars, typec>>

\* Nothing is mounted; the register holds any value and the platform has a
\* global lock or has none.
InitCht ==
    /\ host = [d \in Dirs |-> <<>>]
    /\ child = [d \in Dirs |-> [n \in Names |-> NoInode]]
    /\ last_ino = 1
    /\ nops = 0
    /\ base = loff(0)
    /\ InitMount
    /\ typec = TypecStart(TRUE, TRUE)
    /\ \E cfg0 \in SUBSET (SW_VBUS_VALID \cup SW_IDPIN_EN \cup SW_IDPIN \cup CFG0_OTHER),
          configured \in BOOLEAN :
          cht = ChtStart(cfg0, configured)

NextCht ==
    \/ \E role \in {USB_ROLE_HOST, USB_ROLE_DEVICE} : intel_cht_usb_set_role(role)
    \/ \E valid \in BOOLEAN : intel_cht_usb_set_vbus_valid(valid)
    \/ \E t \in ChtTasks : cht_acquire(t)
    \/ \E t \in ChtTasks : cht_readl(t)
    \/ \E t \in ChtTasks : cht_writel(t)
    \/ \E t \in ChtTasks : cht_release(t)

SpecCht == InitCht /\ [][NextCht]_vars

\* The task t has read DUAL_ROLE_CFG0 and not yet written it back.
InReadModifyWrite(t) == Task(t).pc = "writel"

\* The task t has written the register in its call.
Wrote(t) == Task(t).pc \in {"release", "done"} /\ Task(t).ret # EIO

\* C26: the read-modify-write of DUAL_ROLE_CFG0 by intel_cht_usb_set_role
\* and the one by intel_cht_usb_set_vbus_valid never overlap; when both
\* have written, the register holds SW_IDPIN as the role asks, SW_VBUS_VALID
\* as the vbus work asks, SW_IDPIN_EN set and every other bit as it was; a
\* task that has returned does not hold the global lock.
C26_RegisterUpdatesExclusive ==
    /\ ~(InReadModifyWrite("role") /\ InReadModifyWrite("vbus"))
    /\ (Wrote("role") /\ Wrote("vbus"))
          => cht.cfg0 = set_vbus_valid_val(
                           set_role_val(cht.cfg0_start, Task("role").role),
                           Task("vbus").valid)
    /\ \A t \in ChtTasks : Task(t).pc \in {"idle", "done"} => cht.glock # t

\* ------------------------------------------------------------- sf_lookup

\* C31: an sf_lookup of a name the host does not have returns success with
\* a negative dentry: no inode is created and the path buffer is released;
\* an sf_lookup that fails returns the error and creates no inode; an
\* sf_lookup that finds the object creates exactly one inode, which owns the
\* path built for the call and has force_restat and force_reread clear and
\* the handle SHFL_HANDLE_NIL.
C31_LookupOutcomes ==
    [][InodeOpStep({"sf_lookup"})
        => /\ sf_i' = sf_i
           /\ host' = host
           /\ IF ret'.err # OK
              THEN /\ child' = child
                   /\ Times(KFREE_PATH)' = Times(PATH_BUILT)'
              ELSE IF Instantiated = {}
              THEN \* negative dentry
                   /\ child' = child
                   /\ last_ino' = last_ino
                   /\ Times(PATH_BUILT)' = 1
                   /\ Times(KFREE_PATH)' = 1
                   /\ calls' = <<"vboxsf_fsinfo">>
              ELSE /\ Cardinality(Instantiated) = 1
                   /\ \A d \in Dirs, n \in Names :
                         <<d, n>> \notin Instantiated => child'[d][n] = child[d][n]
                   /\ \A dn \in Instantiated :
                         LET new == child'[dn[1]][dn[2]] IN
                         /\ HasName(host[dn[1]], dn[2])
                         /\ new.path = sf_path_from_dentry(sf_i[dn[1]].path, dn[2])
                         /\ ~new.force_restat
                         /\ ~new.force_reread
                         /\ new.handle = SHFL_HANDLE_NIL
                         /\ new.ino \notin LiveInos
                   /\ Times(PATH_BUILT)' = 1
                   /\ Times(KFREE_PATH)' = 0
           /\ (\E d \in Dirs, n \in Names :
                  /\ child[d][n] = NoInode
                  /\ ~HasName(host[d], n)
                  /\ ret'.err = OK
                  /\ Instantiated = {})
              \/ ret'.err # OK
              \/ Instantiated # {}]_vars

\* C31 witness: after a lookup that found an object, a lookup of a name the
\* host does not have returned success, created nothing and released its
\* buffer.
C31_Witness ==
    /\ ret.op = "sf_lookup"
    /\ ret.err = OK
    /\ kmem = <<PATH_BUILT, KFREE_PATH>>
    /\ calls = <<"vboxsf_fsinfo">>
    /\ Cardinality(Positive) = 1
    /\ \A dn \in Positive :
          /\ child[dn[1]][dn[2]].handle = SHFL_HANDLE_NIL
          /\ ~child[dn[1]][dn[2]].force_restat
          /\ child[dn[1]][dn[2]].path = Append(sf_i[dn[1]].path, dn[2])

\* ---------------------------------------------- the numbers given to dir_emit

\* An ino_t as a loff_t.
ino_as_loff(ino) == <<ino[1], ino[2], 0, 0>>

\* C32: the inode number dir_emit was given for the entry at cursor n is
\* n + 0xbeef; the numbers given since the open are not 0, differ from one
\* another and grow by one per cursor position, an entry that was skipped
\* leaving a gap of one.
C32_FakeInoIsCursorPlusOffset ==
    /\ \A i \in DOMAIN emitted[1] :
          /\ ino_as_loff(emitted[1][i].ino)
                = loff_add(ctx_pos(emitted[1][i].pos), loff(FAKE_INO_OFFSET))
          /\ emitted[1][i].ino # <<0, 0>>
    /\ \A i \in DOMAIN emitted[1], j \in DOMAIN emitted[1] :
          i < j => /\ emitted[1][i].pos < emitted[1][j].pos
                   /\ emitted[1][i].ino # emitted[1][j].ino
                   /\ ino_as_loff(emitted[1][j].ino)
                         = loff_add(ino_as_loff(emitted[1][i].ino),
                                    loff(emitted[1][j].pos - emitted[1][i].pos))

\* C32 witness: two entries were given to dir_emit with the entry between
\* them skipped, and the call has returned.
C32_Witness ==
    /\ Len(emitted[1]) >= 2
    /\ emitted[1][1].ino = <<FAKE_INO_OFFSET, 0>>
    /\ emitted[1][2].pos = emitted[1][1].pos + 2
    /\ iter[1].pc = "idle"

\* ------------------------------------------------ cached types and type tags

\* Type tags SHFL_TYPE_MASK lets through that sf_get_d_type has no case for.
OtherTags == {"SHFL_TYPE_UNKNOWN", "0030000"}
TypeTags == {SHFL_TYPE_FIFO, SHFL_TYPE_DEV_CHAR, SHFL_TYPE_DIRECTORY,
             SHFL_TYPE_DEV_BLOCK, SHFL_TYPE_FILE, SHFL_TYPE_SYMLINK,
             SHFL_TYPE_SOCKET, SHFL_TYPE_WHITEOUT} \cup OtherTags

\* Every directory holds the entries 1 and 2, both looked up; the host
\* reports entry 1 with any type tag, and the inode of entry 1 caches any
\* file type. No file is opened; one inode operation is made.
InitKinds ==
    /\ \E tag \in TypeTags :
          host = [d \in Dirs |-> [Listing(<<1, 2>>) EXCEPT ![1].type = tag]]
    /\ \E m \in IModes :
          child = [d \in Dirs |-> [n \in Names |->
                    IF HasName(host[d], n)
                    THEN IF n = 1
                         THEN [looked_up(d, host[d], 1) EXCEPT !.i_mode = m]
                         ELSE looked_up(d, host[d], IndexOf(host[d], n))
                    ELSE NoInode]]
    /\ last_ino = 1 + Len(host[SessDir])
    /\ nops = 1
    /\ InitLocal
    /\ base = loff(0)

NextKinds ==
    \/ sf_dir_open(1)
    \/ sf_dir_release(1)
    \/ iterate_begin(1)
    \/ sf_dir_iterate(1)
    \/ \E p \in Dirs, n \in Names : sf_unlink(p, n)
    \/ \E p \in Dirs, n \in Names : sf_rmdir(p, n)
    \/ \E op \in Dirs, on \in Names, np \in Dirs, nn \in Names, fl \in RenameFlags :
          sf_rename(op, on, np, nn, fl)

SpecKinds == InitKinds /\ [][NextKinds]_vars

\* A step of sf_rmdir (fDirectory) or sf_unlink that calls vboxsf_remove.
RemoveCalled(fDirectory) ==
    /\ ret'.op = (IF fDirectory THEN "sf_rmdir" ELSE "sf_unlink")
    /\ calls' = <<"vboxsf_remove">>
    /\ nops' = nops - 1

\* C33: the remove call of sf_rmdir carries SHFL_REMOVE_DIR and not
\* SHFL_REMOVE_FILE, that of sf_unlink SHFL_REMOVE_FILE and not
\* SHFL_REMOVE_DIR; SHFL_REMOVE_SYMLINK is among the flags exactly when the
\* cached type of the dentry's inode is symbolic link, so for none of
\* regular file, directory, socket, fifo, character or block device, and
\* not for a dentry without an inode.
C33_RemoveFlags ==
    /\ [][\A fDirectory \in BOOLEAN : RemoveCalled(fDirectory) =>
            LET target == child[ret'.parent][ret'.name] IN
            /\ (IF fDirectory THEN "SHFL_REMOVE_DIR" ELSE "SHFL_REMOVE_FILE")
                  \in ret'.shfl_flags
            /\ (IF fDirectory THEN "SHFL_REMOVE_FILE" ELSE "SHFL_REMOVE_DIR")
                  \notin ret'.shfl_flags
            /\ ("SHFL_REMOVE_SYMLINK" \in ret'.shfl_flags)
                  <=> (target.i_mode = S_IFLNK)
            /\ target.i_mode \in IModes]_vars
    /\ [](\A fDirectory \in BOOLEAN :
            "SHFL_REMOVE_SYMLINK" \notin unlink_flags(fDirectory, NoInode))

\* An unlink of a socket inode went to the host without the symlink flag.
C33_Witness ==
    /\ ret.op = "sf_unlink"
    /\ ret.err = OK
    /\ ret.shfl_flags = {"SHFL_REMOVE_FILE"}
    /\ \E d \in Dirs \ {ret.parent} :
          child[d][ret.name] # NoInode /\ child[d][ret.name].i_mode = S_IFSOCK

\* The generic type C34 names for a type tag.
GenericType ==
    [tag \in TypeTags |->
        IF tag = SHFL_TYPE_FIFO THEN "DT_FIFO"
        ELSE IF tag = SHFL_TYPE_DEV_CHAR THEN "DT_CHR"
        ELSE IF tag = SHFL_TYPE_DIRECTORY THEN "DT_DIR"
        ELSE IF tag = SHFL_TYPE_DEV_BLOCK THEN "DT_BLK"
        ELSE IF tag = SHFL_TYPE_FILE THEN "DT_REG"
        ELSE IF tag = SHFL_TYPE_SYMLINK THEN "DT_LNK"
        ELSE IF tag = SHFL_TYPE_SOCKET THEN "DT_SOCK"
        ELSE IF tag = SHFL_TYPE_WHITEOUT THEN "DT_WHT"
        ELSE "DT_UNKNOWN"]

RenameCalled ==
    /\ ret'.op = "sf_rename"
    /\ calls' = <<"vboxsf_rename">>
    /\ nops' = nops - 1

RenameFlagsByDirBit ==
    [][RenameCalled
        => LET source == child[ret'.old_parent][ret'.old_name] IN
           ret'.shfl_flags =
              IF source.i_mode \in {S_IFDIR, S_IFBLK, S_IFSOCK} THEN {}
              ELSE {"SHFL_RENAME_FILE", "SHFL_RENAME_REPLACE_IF_EXISTS"}]_vars

\* ------------------------------------------------------------- termination

\* A pass of sf_dir_iterate's loop whose refetch fails, at a cursor beyond
\* the end of every listing: 232-237 advance the cursor and continue. The
\* cursors from MaxPos on are all past the end and are kept as MaxPos.
sf_dir_iterate_past(f) ==
    /\ iter[f].pc = "loop"
    /\ file[f].f_pos = MaxPos
    /\ sf_i[SessDir].force_reread
    /\ \E g \in refetch_failures(f) :
          /\ calls' = g.calls
          /\ remote' = remote + handle_balance(g.handle, g.calls)
          /\ sf_i' = [sf_i EXCEPT ![SessDir].force_reread = g.force_reread]
          /\ ret' = [op |-> "sf_dir_iterate", f |-> f, err |-> "pending"]
          /\ file' = [file EXCEPT ![f].private_data = g.pd]
          /\ iter' = [iter EXCEPT ![f].getdent = g.err]
    /\ UNCHANGED <<host, child, last_ino, mut, nops, kmem, emitted, auxVars>>

NextLive == Next \/ sf_dir_iterate_past(1)

\* The task inside sf_dir_iterate keeps running: the loop makes its next
\* pass, whatever the pass finds.
SpecLive ==
    Init /\ [][NextLive]_vars
         /\ WF_vars(sf_dir_iterate(1) \/ sf_dir_iterate_past(1))

\* C35: every call of sf_dir_iterate returns: the loop a call entered is
\* left after finitely many passes, also when force_reread is set and every
\* refetch fails.
C35_IterateReturns == (iter[1].pc = "loop") ~> (iter[1].pc = "idle")

\* A call that finds force_reread clear returns.
IterateReturnsWithoutRefetch ==
    (iter[1].pc = "loop" /\ ~sf_i[SessDir].force_reread) ~> (iter[1].pc = "idle")

\* C36: with both struct files of the directory open since before a
\* successful sf_unlink or sf_rmdir in it, a pass of sf_dir_iterate on
\* either file that emits an entry has the listing refetched after that
\* removal behind it: the file's buffers hold what the host holds now, not
\* the listing from before the removal.
C36_BothSessionsRefetch ==
    [][\A f \in Files :
          (/\ IteratePass(f)
           /\ Len(emitted'[f]) = Len(emitted[f]) + 1
           /\ \A g \in Files : file[g].opened /\ mut[g] > 0)
          => Flatten(file'[f].private_data.info_list) = host[SessDir]]_vars

\* C37: the sf_dir_info behind an open struct file has not been released -
\* it is released by sf_dir_release only, once - and no pass of
\* sf_dir_iterate and no sf_dir_release works on an sf_dir_info that has
\* been released already, also after a refetch found the directory gone.
C37_ListingReleasedByCloseOnly ==
    /\ [](\A f \in Files : file[f].opened => file[f].private_data.st = "live")
    /\ [][\A f \in Files :
            (\/ IteratePass(f)
             \/ (ret'.op = "sf_dir_release" /\ ret'.f = f /\ ~file'[f].opened))
            => file[f].private_data.st = "live"]_vars

\* ------------------------------------------------------------ vfsmod.c

\* sf_evict_inode without line 245.
evict_kmem_none == <<>>

\* vfsmod.c 245: sf_evict_inode releases the buffer the inode owns.
evict_kmem == <<KFREE_INODE_PATH>>

\* sf_evict_inode: the VFS destroys an inode no dentry holds any more, or
\* one whose dentry it prunes from the dentry cache.
sf_evict_inode ==
    /\ \/ \E inode \in dropped :
             /\ dropped' = dropped \ {inode}
             /\ UNCHANGED child
       \/ \E d \in Dirs, n \in Names :
             /\ child[d][n] # NoInode
             /\ ~inode_locked(d)
             /\ child' = [child EXCEPT ![d][n] = NoInode]
             /\ UNCHANGED dropped
    /\ kmem' = evict_kmem
    /\ ret' = [op |-> "sf_evict_inode", f |-> 0, err |-> OK]
    /\ calls' = <<>>
    /\ UNCHANGED <<host, sf_i, last_ino, file, iter, emitted, mut, nops, remote,
                   base, thr, lst, hwVars>>

\* Every directory holds the entries 1 and 2; those of the session
\* directory have been looked up. No file is opened.
InitEvict ==
    /\ host = [d \in Dirs |-> Listing(<<1, 2>>)]
    /\ child = [d \in Dirs |-> [n \in Names |->
                  IF d = SessDir /\ HasName(host[d], n)
                  THEN looked_up(d, host[d], IndexOf(host[d], n)) ELSE NoInode]]
    /\ last_ino = 1 + Len(host[SessDir])
    /\ nops = MaxOps
    /\ InitLocal
    /\ base = loff(0)

\* The inode operations on the entries of the session directory, a rename
\* also into another directory, and the evictions.
NextEvict ==
    \/ \E n \in Names : sf_lookup(SessDir, n)
    \/ \E n \in Names : sf_create(SessDir, n)
    \/ \E n \in Names : sf_mkdir(SessDir, n)
    \/ \E n \in Names : sf_unlink(SessDir, n)
    \/ \E n \in Names : sf_rmdir(SessDir, n)
    \/ \E n \in Names : sf_symlink(SessDir, n)
    \/ \E on \in Names, np \in Dirs, nn \in Names, fl \in RenameFlags :
          sf_rename(SessDir, on, np, nn, fl)
    \/ sf_evict_inode

SpecEvict == InitEvict /\ [][NextEvict]_vars

\* The inodes that exist: those dentries hold and those waiting for
\* eviction.
LiveInodes(c, dr) ==
    ({c[d][n] : d \in Dirs, n \in Names} \ {NoInode}) \cup dr

\* The dentries whose inode took a path buffer in this step.
NewOwners ==
    {dn \in Dirs \X Names :
        LET was == child[dn[1]][dn[2]]
            is  == child'[dn[1]][dn[2]]
        IN is # NoInode /\ (was = NoInode \/ was.ino # is.ino \/ was.path # is.path)}

\* C38: a step of sf_lookup, sf_create, sf_mkdir, sf_unlink, sf_rmdir,
\* sf_rename or sf_symlink builds at most one path buffer, and on return
\* the buffer it built is either the path of exactly one inode and not
\* released, or released once and the path of no inode; an inode's buffer is
\* released only by sf_rename, which gives the inode the new one, or by
\* sf_evict_inode, which ends the inode, once each; no two inodes have the
\* same number.
C38_PathBufferOwnedOrReleased ==
    /\ [][(InodeOpStep({"sf_lookup", "sf_create", "sf_mkdir", "sf_unlink",
                        "sf_rmdir", "sf_rename", "sf_symlink"})
           \/ ret'.op = "sf_evict_inode")
          => LET before == LiveInodes(child, dropped)
                 after  == LiveInodes(child', dropped')
                 gone   == {i \in before : \A j \in after : j.ino # i.ino}
                 repathed == {i \in before :
                                \E j \in after : j.ino = i.ino /\ j.path # i.path}
             IN /\ Times(PATH_BUILT)' <= 1
                /\ IF Times(PATH_BUILT)' = 0
                   THEN NewOwners = {} /\ Times(KFREE_PATH)' = 0
                   ELSE \/ Cardinality(NewOwners) = 1 /\ Times(KFREE_PATH)' = 0
                        \/ NewOwners = {} /\ Times(KFREE_PATH)' = 1
                /\ Times(KFREE_INODE_PATH)' = Cardinality(gone) + Cardinality(repathed)
                /\ gone # {} => ret'.op = "sf_evict_inode" /\ Cardinality(gone) = 1
                /\ repathed # {} => ret'.op = "sf_rename" /\ ret'.err = OK
                                    /\ Cardinality(repathed) = 1]_vars
    /\ [](\A i, j \in LiveInodes(child, dropped) : i.ino = j.ino => i = j)

\* A rename into another directory replaced the entry there, for which the
\* inode got a new buffer; an unlink took the other inode of the session
\* directory from its dentry, and sf_evict_inode has released that inode's
\* buffer.
C38_Witness ==
    /\ ret.op = "sf_evict_inode"
    /\ kmem = <<KFREE_INODE_PATH>>
    /\ dropped = {}
    /\ \E d \in Dirs \ {SessDir}, n \in Names :
          child[d][n] # NoInode /\ Len(host[d]) = Len(host[SessDir]) + 2
    /\ \A n \in Names : child[SessDir][n] = NoInode
    /\ host[SessDir] = <<>>

====
